---- MODULE Spec2Model ----
(***************************************************************************)
(* claude-pilot: the streaming transcoder that rewrites the backend's      *)
(* delta-based event stream (OpenAI chat.completion.chunk lines) into the  *)
(* client's block-based event stream (Anthropic SSE events).               *)
(*                                                                         *)
(* The repository holds two createStreamTransformer implementations:       *)
(*   "proxy"  - apps/proxy/src/transform/streaming.ts (src/unnamed/part_009)*)
(*   "legacy" - src/transform/streaming.ts (src/src/transform/streaming.ts),*)
(*              driven by the reader loop of src/unnamed/part_012.         *)
(* One session of either is modelled; Init picks which (Spec).             *)
(*                                                                         *)
(* The second part is the handling of POST /v1/messages: the request       *)
(* detection of utils/detection.ts, the dispatch and the handlers of       *)
(* server.ts, and transformRequest / transformResponse (RouteSpec).        *)
(*                                                                         *)
(* The third part is the reply pipeline of a streamed reply whose client   *)
(* disconnects (PipeSpec), the fourth getValidCopilotToken and the stored  *)
(* credentials (TokenSpec).  Two concurrent sessions of the transcoder are *)
(* PairSpec; the start, stop and status commands of the CLI and the proxy  *)
(* server processes they manage are DaemonSpec and SerialSpec.             *)
(***************************************************************************)
EXTENDS Integers, Sequences, FiniteSets, TLC

VARIABLES
    variant,    \* which createStreamTransformer this session runs
    alphabet,   \* the kinds of line the backend of this session writes
    session,    \* the closure state of createStreamTransformer, plus the events enqueued so far
    wire,       \* bytes the backend has written that no transform call has read yet
    received,   \* every byte handed to transform so far, in order
    status,     \* "open", "closed" (backend stream ended), "errored", "cancelled", "unused"
    client,     \* "connected", "gone" (it disconnected), "stalled" (gone, pump blocked)
    anthropicRequest,  \* the body of the POST /v1/messages being handled
    webSearchEnabled,  \* the server's web search switch
    turn,       \* the requests of this conversation so far
    phase,      \* "idle", "received", "forwarded", "replied"
    route,      \* the handler the request was given to
    call,       \* the backend call of the handler: X-Initiator and body
    openaiResponse,  \* the backend's latest answer to a call
    reply,      \* what the client is sent
    now,        \* Date.now(), in milliseconds
    credentials,  \* the StoredCredentials object the server holds
    authFile,   \* the credentials written in the auth file
    tokenCall,  \* the position and the result of the getValidCopilotToken call
    states,     \* the closure states the createStreamTransformer calls have allocated
    streams,    \* per concurrent session: its script, the bytes on its wire, the bytes received
    daemonFile, \* the daemon state file of the CLI: absent, or the pid and port written
    servers,    \* the proxy server processes spawned so far: port and whether alive
    commands    \* the CLI invocations in progress: command, position, locals

streamVars == <<variant, alphabet, session, wire, received, status, client>>

routeVars ==
    <<anthropicRequest, webSearchEnabled, turn, phase, route, call, openaiResponse, reply>>

tokenVars == <<now, credentials, authFile, tokenCall>>

pairVars == <<states, streams>>

daemonVars == <<daemonFile, servers, commands>>

vars == <<streamVars, routeVars, tokenVars, pairVars, daemonVars>>

\* StoredCredentials, and a getValidCopilotToken call that has not begun:
\* "at" is the now of the call, "before" and "fileBefore" what it found,
\* "fetched" what getCopilotToken returned, "token" what the call returned
Credentials(token, expiresAt) ==
    [githubToken |-> "gho", copilotToken |-> token, copilotTokenExpiresAt |-> expiresAt]

NoFetch == [token |-> "", expires_at |-> 0]

NotCalled ==
    [phase |-> "idle", at |-> 0, before |-> Credentials("", 0),
     fileBefore |-> Credentials("", 0), fetched |-> NoFetch, token |-> "",
     refreshed |-> FALSE]

\* the token part of a state in which no credentials are loaded and no
\* token is asked for
Unloaded == << >>

TokenIdle ==
    /\ now = 0
    /\ credentials = Unloaded
    /\ authFile = Unloaded
    /\ tokenCall = Unloaded

\* no concurrent sessions
PairIdle ==
    /\ states = << >>
    /\ streams = << >>

\* no CLI invocation, no server process, no daemon state file
DaemonIdle ==
    /\ daemonFile = << >>
    /\ servers = << >>
    /\ commands = << >>

\* an absent system prompt; no backend call; nothing sent to the client
Absent == [kind |-> "absent"]

NoCall == [made |-> FALSE]

NoReply == [kind |-> "none"]

\* no answer of the backend yet; an answer whose status is not 2xx
NoAnswer == [ok |-> FALSE, status |-> "none"]

NotOk == [ok |-> FALSE, status |-> "error"]

(***************************************************************************)
(* Bounds of the model.                                                    *)
(***************************************************************************)
MaxLines == 4     \* logical lines the backend writes in one session
MaxChunk == 4     \* pieces of line text in one transport chunk
MaxMessages == 2  \* messages in the first request of a conversation
MaxTurns == 2     \* requests of one conversation

(***************************************************************************)
(* The backend's logical lines.  Each is named; Chunk gives the JSON value *)
(* of the lines that hold valid JSON.                                      *)
(***************************************************************************)
NoUsage == [present |-> FALSE, prompt_tokens |-> 0, completion_tokens |-> 0]

Usage(p, c) == [present |-> TRUE, prompt_tokens |-> p, completion_tokens |-> c]

\* one entry of delta.tool_calls; "" stands for an absent id, name or arguments
ToolCall(i, id, name, args) == [index |-> i, id |-> id, name |-> name, arguments |-> args]

\* an OpenAIStreamChunk whose choices array holds one choice
Delta(content, calls, finish, usage) ==
    [choices |-> "one", content |-> content, tool_calls |-> calls,
     finish_reason |-> finish, usage |-> usage]

\* an OpenAIStreamChunk with choices: [] (the usage snapshot of stream_options)
NoChoice(usage) ==
    [choices |-> "empty", content |-> "", tool_calls |-> <<>>,
     finish_reason |-> "", usage |-> usage]

\* a JSON object without a choices field (a backend error object)
NoChoicesField ==
    [choices |-> "missing", content |-> "", tool_calls |-> <<>>,
     finish_reason |-> "", usage |-> NoUsage]

JsonLines == {"role", "hel", "lo", "t0open", "t0argA", "t0argB", "t1open",
              "stop", "length", "toolcalls", "usage", "usageDelta", "errobj",
              "filter", "funcall"}

\* "done" is the [DONE] sentinel, "bad" a data line that is not JSON,
\* "comment" a line that does not begin with "data: "
Lines == JsonLines \cup {"done", "bad", "comment"}

\* The sessions explored: a text reply, a reply with tool calls, and a
\* reply with usage snapshots and an error object.
TextLines == {"role", "hel", "lo", "stop", "done", "bad"}

ToolLines == {"hel", "t0open", "t0argA", "t0argB", "t1open", "toolcalls"}

UsageLines == {"hel", "usage", "usageDelta", "length", "errobj", "comment"}

\* a reply ended by a finish_reason the map has no case for
FinishLines == {"hel", "length", "filter", "funcall"}

Sessions == {<<"proxy", TextLines>>, <<"proxy", ToolLines>>, <<"proxy", UsageLines>>,
             <<"legacy", TextLines>>, <<"legacy", ToolLines>>,
             <<"proxy", FinishLines>>, <<"legacy", FinishLines>>}

Chunk(l) ==
    CASE l = "role"      -> Delta("", <<>>, "", NoUsage)
      [] l = "hel"       -> Delta("Hel", <<>>, "", NoUsage)
      [] l = "lo"        -> Delta("lo", <<>>, "", NoUsage)
      [] l = "t0open"    -> Delta("", <<ToolCall(0, "c1", "search", "")>>, "", NoUsage)
      [] l = "t0argA"    -> Delta("", <<ToolCall(0, "", "", "{\"q\":")>>, "", NoUsage)
      [] l = "t0argB"    -> Delta("", <<ToolCall(0, "", "", "\"x\"}")>>, "", NoUsage)
      [] l = "t1open"    -> Delta("", <<ToolCall(1, "c2", "fetch", "{}")>>, "", NoUsage)
      [] l = "stop"      -> Delta("", <<>>, "stop", Usage(7, 5))
      [] l = "length"    -> Delta("", <<>>, "length", NoUsage)
      [] l = "toolcalls" -> Delta("", <<>>, "tool_calls", NoUsage)
      [] l = "usage"     -> NoChoice(Usage(7, 3))
      [] l = "usageDelta" -> Delta("", <<>>, "", Usage(7, 3))
      [] l = "errobj"    -> NoChoicesField
      [] l = "filter"    -> Delta("", <<>>, "content_filter", NoUsage)
      [] l = "funcall"   -> Delta("", <<>>, "function_call", NoUsage)

(***************************************************************************)
(* The wire.  The text of a logical line is cut in two pieces: piece 1 is  *)
(* its head (for a data line it begins with "data: "), piece 2 the rest;   *)
(* the line end "\n" is a piece of its own.                                *)
(***************************************************************************)
Piece(l, p) == [line |-> l, part |-> p]

NL == [line |-> "", part |-> 0]

WireLine(l) == <<Piece(l, 1), Piece(l, 2), NL>>

\* the text is the full text of one logical line
Whole(text) ==
    /\ Len(text) = 2
    /\ text[1].part = 1
    /\ text[2].part = 2
    /\ text[1].line = text[2].line

\* line.startsWith('data: ')
StartsWithData(text) ==
    /\ Len(text) > 0
    /\ text[1].part = 1
    /\ text[1].line # "comment"

\* line.slice(6).trim() === '[DONE]'
IsDone(text) == Whole(text) /\ text[1].line = "done"

\* JSON.parse(data) does not throw
ParsesAsJson(text) == Whole(text) /\ text[1].line \in JsonLines

JsonParse(text) == Chunk(text[1].line)

\* String.prototype.split('\n'): the texts between line ends; the last
\* element is what follows the last line end (empty when there is none)
RECURSIVE Split(_, _, _)
Split(bytes, cur, acc) ==
    IF bytes = <<>> THEN Append(acc, cur)
    ELSE IF Head(bytes) = NL THEN Split(Tail(bytes), <<>>, Append(acc, cur))
    ELSE Split(Tail(bytes), Append(cur, Head(bytes)), acc)

SplitLines(bytes) == Split(bytes, <<>>, <<>>)

(***************************************************************************)
(* The events of the client protocol, as the objects handed to emit.       *)
(***************************************************************************)
\* createMessageStartEvent
createMessageStartEvent(st) ==
    [type |-> "message_start",
     usage |-> [input_tokens |-> st.inputTokens, output_tokens |-> 0]]

ContentBlockStop(i) == [type |-> "content_block_stop", index |-> i]

TextBlockStart(i) ==
    [type |-> "content_block_start", index |-> i,
     content_block |-> [type |-> "text", text |-> ""]]

ToolUseBlockStart(i, id, name) ==
    [type |-> "content_block_start", index |-> i,
     content_block |-> [type |-> "tool_use", id |-> id, name |-> name]]

TextDelta(i, text) ==
    [type |-> "content_block_delta", index |-> i,
     delta |-> [type |-> "text_delta", text |-> text]]

InputJsonDelta(i, json) ==
    [type |-> "content_block_delta", index |-> i,
     delta |-> [type |-> "input_json_delta", partial_json |-> json]]

\* the message_delta of apps/proxy: usage carries input and output tokens
MessageDelta(stopReason, inTok, outTok) ==
    [type |-> "message_delta", stop_reason |-> stopReason,
     usage |-> [input_tokens |-> inTok, output_tokens |-> outTok]]

\* the message_delta of src/transform: usage carries output tokens only
LegacyMessageDelta(stopReason, outTok) ==
    [type |-> "message_delta", stop_reason |-> stopReason,
     usage |-> [output_tokens |-> outTok]]

MessageStop == [type |-> "message_stop"]

\* mapFinishReason with the default of the non-streaming map, null
mapFinishReason_DefaultNull(reason) ==
    CASE reason = "stop"       -> "end_turn"
      [] reason = "length"     -> "max_tokens"
      [] reason = "tool_calls" -> "tool_use"
      [] OTHER                 -> "null"

\* mapFinishReason
mapFinishReason(reason) ==
    CASE reason = "stop"       -> "end_turn"
      [] reason = "length"     -> "max_tokens"
      [] reason = "tool_calls" -> "tool_use"
      [] OTHER                 -> "end_turn"

(***************************************************************************)
(* createStreamTransformer: the closure state and the transform callback.  *)
(***************************************************************************)
\* the state a createStreamTransformer call starts with; out is the
\* sequence of events enqueued on the controller
InitSession ==
    [contentBlockIndex     |-> 0,
     toolCalls             |-> << >>,
     inputTokens           |-> 0,
     outputTokens          |-> 0,
     sentMessageStart      |-> FALSE,
     sentContentBlockStart |-> FALSE,
     sentMessageStop       |-> FALSE,
     currentContentType    |-> "null",
     buffer                |-> << >>,
     out                   |-> << >>]

\* emit(controller, data) / controller.enqueue(formatSSE(data))
emit(st, event) == [st EXCEPT !.out = Append(@, event)]

\* `||` on numbers: the left operand unless it is 0 (or absent)
OrElse(a, b) == IF a # 0 THEN a ELSE b

\* SendMessageStart without the capture of usage.prompt_tokens
SendMessageStart_NoCapture(st, chunk) ==
    IF ~st.sentMessageStart
    THEN [emit(st, createMessageStartEvent(st)) EXCEPT !.sentMessageStart = TRUE]
    ELSE st

\* "Send message_start on first chunk"
SendMessageStart(st, chunk) ==
    IF ~st.sentMessageStart
    THEN LET s1 == IF chunk.usage.present /\ chunk.usage.prompt_tokens # 0
                   THEN [st EXCEPT !.inputTokens = chunk.usage.prompt_tokens]
                   ELSE st
         IN  [emit(s1, createMessageStartEvent(s1)) EXCEPT !.sentMessageStart = TRUE]
    ELSE st

\* CloseOpenBlock without the content_block_stop: the index moves on, the
\* open block is never stopped
CloseOpenBlock_NoStop(st) ==
    IF st.sentContentBlockStart
    THEN [st EXCEPT !.contentBlockIndex = @ + 1]
    ELSE st

\* CloseOpenBlock without the increment: the next block takes the index of
\* the block just stopped
CloseOpenBlock_NoIncrement(st) ==
    IF st.sentContentBlockStart
    THEN emit(st, ContentBlockStop(st.contentBlockIndex))
    ELSE st

\* "if (sentContentBlockStart) { emit content_block_stop; contentBlockIndex++ }"
CloseOpenBlock(st) ==
    IF st.sentContentBlockStart
    THEN [emit(st, ContentBlockStop(st.contentBlockIndex))
            EXCEPT !.contentBlockIndex = @ + 1]
    ELSE st

\* "Start new text block"
StartTextBlock(st) ==
    LET s1 == CloseOpenBlock(st)
    IN  [emit(s1, TextBlockStart(s1.contentBlockIndex))
            EXCEPT !.sentContentBlockStart = TRUE, !.currentContentType = "text"]

\* HandleContent opening a block for every fragment
HandleContent_BlockPerFragment(st, chunk) ==
    IF chunk.content # ""
    THEN LET s1 == StartTextBlock(st)
         IN  emit(s1, TextDelta(s1.contentBlockIndex, chunk.content))
    ELSE st

\* "Handle text content"
HandleContent(st, chunk) ==
    IF chunk.content # ""
    THEN LET s1 == IF ~st.sentContentBlockStart \/ st.currentContentType # "text"
                   THEN StartTextBlock(st)
                   ELSE st
         IN  emit(s1, TextDelta(s1.contentBlockIndex, chunk.content))
    ELSE st

\* state.toolCalls.set(index, {id, name, arguments: ''})
SetToolCall(calls, tc) ==
    [i \in DOMAIN calls \cup {tc.index} |->
        IF i = tc.index THEN [id |-> tc.id, name |-> tc.name, arguments |-> ""]
        ELSE calls[i]]

\* "New tool call - close any existing content block", "Start tool_use block"
StartToolUseBlock(st, tc) ==
    LET s1 == CloseOpenBlock(st)
        s2 == [s1 EXCEPT !.toolCalls = SetToolCall(@, tc)]
    IN  [emit(s2, ToolUseBlockStart(s2.contentBlockIndex, tc.id, tc.name))
            EXCEPT !.sentContentBlockStart = TRUE, !.currentContentType = "tool_use"]

\* StreamArguments forwarding the accumulated arguments instead of the fragment
StreamArguments_Accumulated(st, tc) ==
    IF tc.arguments # "" /\ tc.index \in DOMAIN st.toolCalls
    THEN emit([st EXCEPT !.toolCalls[tc.index].arguments = @ \o tc.arguments],
              InputJsonDelta(st.contentBlockIndex,
                             st.toolCalls[tc.index].arguments \o tc.arguments))
    ELSE st

\* "Stream tool call arguments"
StreamArguments(st, tc) ==
    IF tc.arguments # "" /\ tc.index \in DOMAIN st.toolCalls
    THEN emit([st EXCEPT !.toolCalls[tc.index].arguments = @ \o tc.arguments],
              InputJsonDelta(st.contentBlockIndex, tc.arguments))
    ELSE st

\* HandleToolCall opening a block for every fragment that has an id and a
\* name, registered or not
HandleToolCall_OpensOnIdAndName(st, tc) ==
    LET s1 == IF tc.id # "" /\ tc.name # ""
              THEN StartToolUseBlock(st, tc)
              ELSE st
    IN  StreamArguments(s1, tc)

\* the body of "for (const toolCall of delta.tool_calls)"
HandleToolCall(st, tc) ==
    LET s1 == IF tc.index \notin DOMAIN st.toolCalls /\ tc.id # "" /\ tc.name # ""
              THEN StartToolUseBlock(st, tc)
              ELSE st
    IN  StreamArguments(s1, tc)

\* "Handle tool calls"
RECURSIVE HandleToolCalls(_, _)
HandleToolCalls(st, calls) ==
    IF calls = << >> THEN st
    ELSE HandleToolCalls(HandleToolCall(st, Head(calls)), Tail(calls))

\* EmitFinish with the open block stopped after the terminal pair
EmitFinish_StopLast(v, st, chunk) ==
    LET stopReason   == mapFinishReason(chunk.finish_reason)
        inputTokens  == OrElse(chunk.usage.prompt_tokens, st.inputTokens)
        outputTokens == OrElse(chunk.usage.completion_tokens, st.outputTokens)
        s1 == IF v = "proxy"
              THEN emit(st, MessageDelta(stopReason, inputTokens, outputTokens))
              ELSE emit(st, LegacyMessageDelta(stopReason, outputTokens))
        s2 == emit(s1, MessageStop)
    IN  IF st.sentContentBlockStart
        THEN emit(s2, ContentBlockStop(st.contentBlockIndex))
        ELSE s2

\* the events of "Handle finish_reason"
EmitFinish(v, st, chunk) ==
    LET s1 == IF st.sentContentBlockStart
              THEN emit(st, ContentBlockStop(st.contentBlockIndex))
              ELSE st
        stopReason   == mapFinishReason(chunk.finish_reason)
        inputTokens  == OrElse(chunk.usage.prompt_tokens, st.inputTokens)
        outputTokens == OrElse(chunk.usage.completion_tokens, st.outputTokens)
        s2 == IF v = "proxy"
              THEN emit(s1, MessageDelta(stopReason, inputTokens, outputTokens))
              ELSE emit(s1, LegacyMessageDelta(stopReason, outputTokens))
    IN  emit(s2, MessageStop)

\* "Handle finish_reason": apps/proxy guards it with !sentMessageStop and
\* sets the flag; src/transform has neither the guard nor the flag
HandleFinish(v, st, chunk) ==
    IF v = "proxy"
    THEN IF chunk.finish_reason # "" /\ ~st.sentMessageStop
         THEN [EmitFinish(v, st, chunk) EXCEPT !.sentMessageStop = TRUE]
         ELSE st
    ELSE IF chunk.finish_reason # ""
         THEN EmitFinish(v, st, chunk)
         ELSE st

\* "Track usage"
TrackUsage(st, chunk) ==
    IF chunk.usage.present
    THEN [st EXCEPT !.outputTokens = chunk.usage.completion_tokens]
    ELSE st

\* the part of the loop body that follows a successful JSON.parse
ProcessChunk(v, st, chunk) ==
    LET s1 == SendMessageStart(st, chunk)
    IN  IF chunk.choices = "missing"
        THEN [st |-> s1, ctl |-> "throw"]      \* openaiChunk.choices[0] on undefined
        ELSE IF chunk.choices = "empty"
        THEN [st |-> s1, ctl |-> "next"]       \* if (!choice) continue
        ELSE LET s2 == HandleContent(s1, chunk)
                 s3 == HandleToolCalls(s2, chunk.tool_calls)
                 s4 == HandleFinish(v, s3, chunk)
             IN  [st |-> TrackUsage(s4, chunk), ctl |-> "next"]

\* src/transform only: the '[DONE]' branch emits a terminal pair and returns
LegacyDone(st) ==
    LET s1 == IF st.sentContentBlockStart
              THEN emit(st, ContentBlockStop(st.contentBlockIndex))
              ELSE st
        s2 == emit(s1, LegacyMessageDelta("end_turn", st.outputTokens))
    IN  [st |-> emit(s2, MessageStop), ctl |-> "return"]

\* '[DONE]': apps/proxy skips the line
HandleDone(v, st) ==
    IF v = "proxy" THEN [st |-> st, ctl |-> "next"] ELSE LegacyDone(st)

\* ProcessLine letting the JSON.parse exception escape
ProcessLine_ParseErrorEscapes(v, st, text) ==
    IF ~StartsWithData(text) THEN [st |-> st, ctl |-> "next"]
    ELSE IF IsDone(text) THEN HandleDone(v, st)
    ELSE IF ~ParsesAsJson(text) THEN [st |-> st, ctl |-> "throw"]
    ELSE ProcessChunk(v, st, JsonParse(text))

\* the body of "for (const line of lines)"
ProcessLine(v, st, text) ==
    IF ~StartsWithData(text) THEN [st |-> st, ctl |-> "next"]
    ELSE IF IsDone(text) THEN HandleDone(v, st)
    ELSE IF ~ParsesAsJson(text) THEN [st |-> st, ctl |-> "next"]
    ELSE ProcessChunk(v, st, JsonParse(text))

\* "for (const line of lines)", left by return or by an exception
RECURSIVE ProcessLines(_, _, _)
ProcessLines(v, st, lines) ==
    IF lines = << >> THEN [st |-> st, ctl |-> "next"]
    ELSE LET r == ProcessLine(v, st, Head(lines))
         IN  IF r.ctl = "next" THEN ProcessLines(v, r.st, Tail(lines)) ELSE r

\* the lines one transform call processes, and the buffer it leaves:
\* apps/proxy processes the complete lines of buffer + chunk and keeps the
\* text after the last line end; src/transform splits the chunk alone and
\* processes every element, the trailing partial text included
Front(seq) == SubSeq(seq, 1, Len(seq) - 1)

Last(seq) == seq[Len(seq)]

LinesToProcess(v, st, chunk) ==
    IF v = "proxy" THEN Front(SplitLines(st.buffer \o chunk)) ELSE SplitLines(chunk)

BufferAfter(v, st, chunk) ==
    IF v = "proxy" THEN Last(SplitLines(st.buffer \o chunk)) ELSE st.buffer

\* transform(chunk, controller)
transform(v, st, chunk) ==
    ProcessLines(v, [st EXCEPT !.buffer = BufferAfter(v, st, chunk)],
                 LinesToProcess(v, st, chunk))

(***************************************************************************)
(* The backend and the session's life.                                     *)
(***************************************************************************)
LinesStarted(bytes) == Cardinality({i \in 1..Len(bytes) : bytes[i].part = 1})

\* the pieces the backend may write next: it writes whole lines, in order
NextPieces(sent) ==
    IF sent = << >> \/ Last(sent) = NL
    THEN IF LinesStarted(sent) < MaxLines THEN {Piece(l, 1) : l \in alphabet} ELSE {}
    ELSE IF Last(sent).part = 1 THEN {Piece(Last(sent).line, 2)}
    ELSE {NL}

Init ==
    /\ \E s \in Sessions : variant = s[1] /\ alphabet = s[2]
    /\ session = InitSession
    /\ wire = << >>
    /\ received = << >>
    /\ status = "open"
    /\ client = "connected"
    /\ anthropicRequest = [model |-> <<>>, system |-> Absent, messages |-> <<>>, stream |-> FALSE]
    /\ webSearchEnabled = FALSE
    /\ turn = 0
    /\ phase = "idle"
    /\ route = "none"
    /\ call = NoCall
    /\ openaiResponse = NoAnswer
    /\ reply = NoReply
    /\ TokenIdle
    /\ PairIdle
    /\ DaemonIdle

\* the backend writes the next piece of its stream
BackendWrite ==
    /\ status = "open"
    /\ Len(wire) < MaxChunk
    /\ \E p \in NextPieces(received \o wire) : wire' = Append(wire, p)
    /\ UNCHANGED <<variant, alphabet, session, received, status, client>>
    /\ UNCHANGED routeVars
    /\ UNCHANGED tokenVars
    /\ UNCHANGED pairVars
    /\ UNCHANGED daemonVars

\* the transport hands what has arrived to transform as one chunk; an
\* exception thrown by transform errors the stream
Transform ==
    /\ status = "open"
    /\ client = "connected"
    /\ wire # << >>
    /\ LET r == transform(variant, session, wire)
       IN  /\ session' = r.st
           /\ status' = IF r.ctl = "throw" THEN "errored" ELSE "open"
    /\ received' = received \o wire
    /\ wire' = << >>
    /\ UNCHANGED <<variant, alphabet, client>>
    /\ UNCHANGED routeVars
    /\ UNCHANGED tokenVars
    /\ UNCHANGED pairVars
    /\ UNCHANGED daemonVars

\* the backend stream ends; neither transformer defines flush()
Close ==
    /\ status = "open"
    /\ client = "connected"
    /\ wire = << >>
    /\ status' = "closed"
    /\ UNCHANGED <<variant, alphabet, session, wire, received, client>>
    /\ UNCHANGED routeVars
    /\ UNCHANGED tokenVars
    /\ UNCHANGED pairVars
    /\ UNCHANGED daemonVars

\* the backend connection fails
Abort ==
    /\ status = "open"
    /\ client = "connected"
    /\ status' = "errored"
    /\ wire' = << >>
    /\ UNCHANGED <<variant, alphabet, session, received, client>>
    /\ UNCHANGED routeVars
    /\ UNCHANGED tokenVars
    /\ UNCHANGED pairVars
    /\ UNCHANGED daemonVars

Next == BackendWrite \/ Transform \/ Close \/ Abort

Spec == Init /\ [][Next]_vars

(***************************************************************************)
(* The reply pipeline when the client goes away.  apps/proxy sends the     *)
(* client response.body.pipeThrough(captureStream).pipeThrough(transformer):*)
(* the server cancels the stream it was sending and pipeThrough carries    *)
(* the cancellation up to the backend body.  The server of src/ pumps the  *)
(* backend reader into the transformer in a loop of its own and sends a    *)
(* stream that has no cancel callback, so nothing reaches the reader.      *)
(***************************************************************************)
PipeLines == {"hel", "lo", "stop"}

PipeInit ==
    /\ variant \in {"proxy", "legacy"}
    /\ alphabet = PipeLines
    /\ session = InitSession
    /\ wire = << >>
    /\ received = << >>
    /\ status = "open"
    /\ client = "connected"
    /\ anthropicRequest = [model |-> <<>>, system |-> Absent, messages |-> <<>>, stream |-> TRUE]
    /\ webSearchEnabled = FALSE
    /\ turn = 0
    /\ phase = "idle"
    /\ route = "none"
    /\ call = NoCall
    /\ openaiResponse = NoAnswer
    /\ reply = NoReply
    /\ TokenIdle
    /\ PairIdle
    /\ DaemonIdle

\* the client disconnects in the middle of the streamed reply
ClientDisconnect ==
    /\ status = "open"
    /\ client = "connected"
    /\ received # << >>
    /\ client' = "gone"
    /\ IF variant = "proxy"
       THEN status' = "cancelled" /\ wire' = << >>
       ELSE UNCHANGED <<status, wire>>
    /\ UNCHANGED <<variant, alphabet, session, received>>
    /\ UNCHANGED routeVars
    /\ UNCHANGED tokenVars
    /\ UNCHANGED pairVars
    /\ UNCHANGED daemonVars

\* src/ server: the pump loop goes on after the client is gone; it reads
\* the backend body once more and then waits for a consumer that never
\* comes back
OrphanedRead ==
    /\ variant = "legacy"
    /\ status = "open"
    /\ client = "gone"
    /\ wire # << >>
    /\ LET r == transform(variant, session, wire)
       IN  /\ session' = r.st
           /\ status' = IF r.ctl = "throw" THEN "errored" ELSE "open"
    /\ received' = received \o wire
    /\ wire' = << >>
    /\ client' = "stalled"
    /\ UNCHANGED <<variant, alphabet>>
    /\ UNCHANGED routeVars
    /\ UNCHANGED tokenVars
    /\ UNCHANGED pairVars
    /\ UNCHANGED daemonVars

PipeNext ==
    BackendWrite \/ Transform \/ Close \/ Abort \/ ClientDisconnect \/ OrphanedRead

PipeSpec == PipeInit /\ [][PipeNext]_vars

(***************************************************************************)
(* getValidCopilotToken: the stored Copilot token and its refresh.         *)
(***************************************************************************)
\* "Refresh if token expires in less than 5 minutes"
refreshThreshold == 300000

\* the instants at which the clock is read, the expiry of the token the
\* auth file holds at start, and what GitHub answers: a token and its
\* expires_at in seconds
Instants == {0, 899999, 900000, 900001, 1200000, 1500000}

StoredExpiries == {0, 1200000}

NewTokens == {"tokA", "tokB"}

ExpiresAtSeconds == {1200, 1800, 2700}

\* getValidCopilotToken keeping a token that expires in exactly 5 minutes
StillValid_AtThreshold(creds, t) == creds.copilotTokenExpiresAt - t >= refreshThreshold

\* credentials.copilotTokenExpiresAt - now > refreshThreshold
StillValid(creds, t) == creds.copilotTokenExpiresAt - t > refreshThreshold

\* getCopilotToken: the token of the answer, expires_at in milliseconds
CopilotToken(data) == [token |-> data.token, expiresAt |-> data.expires_at * 1000]

\* loadCredentials at start-up
TokenInit ==
    /\ now = 0
    /\ \E e \in StoredExpiries :
         /\ credentials = Credentials("tok0", e)
         /\ authFile = Credentials("tok0", e)
    /\ tokenCall = NotCalled
    /\ variant = "proxy"
    /\ alphabet = {}
    /\ session = InitSession
    /\ wire = << >>
    /\ received = << >>
    /\ status = "unused"
    /\ client = "connected"
    /\ anthropicRequest = [model |-> <<>>, system |-> Absent, messages |-> <<>>, stream |-> FALSE]
    /\ webSearchEnabled = FALSE
    /\ turn = 0
    /\ phase = "idle"
    /\ route = "none"
    /\ call = NoCall
    /\ openaiResponse = NoAnswer
    /\ reply = NoReply
    /\ PairIdle
    /\ DaemonIdle

\* time passes
Tick ==
    /\ \E t \in Instants : t > now /\ now' = t
    /\ UNCHANGED <<credentials, authFile, tokenCall>>
    /\ UNCHANGED <<streamVars, routeVars>>
    /\ UNCHANGED pairVars
    /\ UNCHANGED daemonVars

\* getValidCopilotToken up to its first await: it returns the stored token
\* or starts getCopilotToken
GetValidCopilotToken ==
    /\ tokenCall.phase \in {"idle", "returned", "threw"}
    /\ tokenCall' =
         IF StillValid(credentials, now)
         THEN [phase |-> "returned", at |-> now, before |-> credentials,
               fileBefore |-> authFile, fetched |-> NoFetch,
               token |-> credentials.copilotToken, refreshed |-> FALSE]
         ELSE [phase |-> "fetching", at |-> now, before |-> credentials,
               fileBefore |-> authFile, fetched |-> NoFetch,
               token |-> "", refreshed |-> FALSE]
    /\ UNCHANGED <<now, credentials, authFile>>
    /\ UNCHANGED <<streamVars, routeVars>>
    /\ UNCHANGED pairVars
    /\ UNCHANGED daemonVars

\* getCopilotToken resolves: "Update stored credentials", then
\* saveCredentials begins
FetchSucceeds ==
    /\ tokenCall.phase = "fetching"
    /\ \E data \in [token : NewTokens, expires_at : ExpiresAtSeconds] :
         LET newToken == CopilotToken(data)
         IN  /\ credentials' = [credentials EXCEPT
                                   !.copilotToken = newToken.token,
                                   !.copilotTokenExpiresAt = newToken.expiresAt]
             /\ tokenCall' = [tokenCall EXCEPT !.phase = "saving", !.fetched = data]
    /\ UNCHANGED <<now, authFile>>
    /\ UNCHANGED <<streamVars, routeVars>>
    /\ UNCHANGED pairVars
    /\ UNCHANGED daemonVars

\* getCopilotToken throws (the status is not ok, or the fetch rejects) and
\* the exception leaves getValidCopilotToken
FetchFails ==
    /\ tokenCall.phase = "fetching"
    /\ tokenCall' = [tokenCall EXCEPT !.phase = "threw"]
    /\ UNCHANGED <<now, credentials, authFile>>
    /\ UNCHANGED <<streamVars, routeVars>>
    /\ UNCHANGED pairVars
    /\ UNCHANGED daemonVars

\* saveCredentials has written the file; the new token is returned
SaveCredentials ==
    /\ tokenCall.phase = "saving"
    /\ authFile' = credentials
    /\ tokenCall' = [tokenCall EXCEPT !.phase = "returned",
                                      !.token = credentials.copilotToken,
                                      !.refreshed = TRUE]
    /\ UNCHANGED <<now, credentials>>
    /\ UNCHANGED <<streamVars, routeVars>>
    /\ UNCHANGED pairVars
    /\ UNCHANGED daemonVars

TokenNext == Tick \/ GetValidCopilotToken \/ FetchSucceeds \/ FetchFails \/ SaveCredentials

TokenSpec == TokenInit /\ [][TokenNext]_vars


(***************************************************************************)
(* Properties.                                                             *)
(***************************************************************************)
out == session.out

IsStart(e) == e.type = "content_block_start"

IsStop(e) == e.type = "content_block_stop"

Count(evs, type) == Cardinality({i \in 1..Len(evs) : evs[i].type = type})

\* positions of the content_block_start events of evs whose block has not
\* been stopped by the end of evs
OpenBlocks(evs) ==
    {i \in 1..Len(evs) :
        /\ IsStart(evs[i])
        /\ \A j \in (i + 1)..Len(evs) : ~(IsStop(evs[j]) /\ evs[j].index = evs[i].index)}

\* C1: at every point of the emitted event sequence at most one content
\* block is open, and a content_block_start is emitted only when no block
\* is open (the open block's content_block_stop comes first); both
\* createStreamTransformer implementations.
OneOpenBlock ==
    \A k \in 1..Len(out) :
        /\ Cardinality(OpenBlocks(SubSeq(out, 1, k))) <= 1
        /\ IsStart(out[k]) => OpenBlocks(SubSeq(out, 1, k - 1)) = {}

\* a second block has been opened after a first one, and it is open
OneOpenBlockWitness ==
    /\ Count(out, "content_block_start") >= 2
    /\ Cardinality(OpenBlocks(out)) = 1
    /\ IsStart(out[Len(out)])

\* no content_block_stop of evs comes before the content_block_start of its index
StopsFollowStarts(evs) ==
    \A j \in 1..Len(evs) :
        IsStop(evs[j]) =>
            \E i \in 1..(j - 1) : IsStart(evs[i]) /\ evs[i].index = evs[j].index

\* C2: when the backend stream has ended, the output of an apps/proxy
\* session holds as many content_block_stop as content_block_start events,
\* and no stop comes before the start of its index.
BlocksBalancedAtEnd ==
    (variant = "proxy" /\ status = "closed") =>
        /\ Count(out, "content_block_stop") = Count(out, "content_block_start")
        /\ StopsFollowStarts(out)

\* C3: a session emits at most one message_delta and at most one
\* message_stop, whatever it is fed.
OneTerminalPair ==
    /\ Count(out, "message_delta") <= 1
    /\ Count(out, "message_stop") <= 1

\* C3 for apps/proxy alone, where sentMessageStop guards the finish_reason
\* branch and [DONE] emits nothing
OneTerminalPairProxy == variant = "proxy" => OneTerminalPair

\* C4: a session whose backend stream has closed after the client stream
\* was opened (message_start sent) has emitted message_stop, so the client
\* stream never ends without its terminal pair.
EndedSessionHasMessageStop ==
    (variant = "proxy" /\ session.sentMessageStart /\ status = "closed") =>
        /\ Count(out, "message_delta") >= 1
        /\ Count(out, "message_stop") >= 1

\* C5: once message_stop has been emitted nothing follows it: message_stop
\* is the last event of the output.
NothingAfterMessageStop ==
    variant = "proxy" =>
        \A i \in 1..Len(out) : out[i].type = "message_stop" => i = Len(out)

\* the complete lines of a byte stream, and its deltas: the values of the
\* complete data lines that hold JSON
CompleteLines(bytes) == Front(SplitLines(bytes))

IsDeltaLine(text) == StartsWithData(text) /\ ~IsDone(text) /\ ParsesAsJson(text)

Deltas(bytes) ==
    LET ls == SelectSeq(CompleteLines(bytes), IsDeltaLine)
    IN  [i \in 1..Len(ls) |-> JsonParse(ls[i])]

\* the deltas a session has processed: those up to the first one that has
\* no choices field, on which transform throws
RECURSIVE UpToThrow(_)
UpToThrow(ds) ==
    IF ds = << >> THEN << >>
    ELSE IF Head(ds).choices = "missing" THEN <<Head(ds)>>
    ELSE <<Head(ds)>> \o UpToThrow(Tail(ds))

Processed == UpToThrow(Deltas(received))

\* C6: whatever the cuts, the session has emitted what it emits when the
\* bytes received so far arrive as one chunk.
ChunkingEquivalence == out = transform(variant, InitSession, received).st.out

\* C6 for apps/proxy alone, which carries the trailing partial line in buffer
ChunkingEquivalenceProxy == variant = "proxy" => ChunkingEquivalence

\* the tool-call fragments of a sequence of deltas, in order
RECURSIVE Fragments(_)
Fragments(ds) == IF ds = << >> THEN << >> ELSE Head(ds).tool_calls \o Fragments(Tail(ds))

\* the concatenation of the function.arguments of a sequence of fragments
RECURSIVE ConcatArguments(_)
ConcatArguments(fs) ==
    IF fs = << >> THEN "" ELSE Head(fs).arguments \o ConcatArguments(Tail(fs))

\* the concatenation of the partial_json of the input_json_delta events of evs
RECURSIVE ConcatPartialJson(_)
ConcatPartialJson(evs) ==
    IF evs = << >> THEN ""
    ELSE (IF Head(evs).type = "content_block_delta" /\ Head(evs).delta.type = "input_json_delta"
          THEN Head(evs).delta.partial_json ELSE "") \o ConcatPartialJson(Tail(evs))

\* C7: when every tool-call fragment processed so far carries the same
\* call-index, the forwarded partial_json strings concatenate to the
\* concatenation of the received function.arguments.
ArgumentsForwardedVerbatim ==
    (/\ variant = "proxy"
     /\ \A i, j \in 1..Len(Fragments(Processed)) :
            Fragments(Processed)[i].index = Fragments(Processed)[j].index)
    => ConcatPartialJson(out) = ConcatArguments(Fragments(Processed))

\* C8: message_start is emitted once, as the first event, when the first
\* delta is processed, and carries that delta's prompt_tokens when it has one.
MessageStartFirst ==
    variant = "proxy" =>
        /\ Count(out, "message_start") = (IF Processed = << >> THEN 0 ELSE 1)
        /\ Len(out) > 0 => out[1].type = "message_start"
        /\ (Processed # << >> /\ Processed[1].usage.present) =>
               out[1].usage.input_tokens = Processed[1].usage.prompt_tokens

\* the first delta carried prompt_tokens and other events followed message_start
MessageStartFirstWitness ==
    /\ variant = "proxy"
    /\ Len(Processed) >= 2
    /\ Processed[1].usage.present
    /\ Processed[1].usage.prompt_tokens = 7
    /\ Len(out) >= 3

\* the stop_reason the client protocol gives a backend finish_reason
ExpectedStopReason(reason) ==
    IF reason = "tool_calls" THEN "tool_use"
    ELSE IF reason = "length" THEN "max_tokens"
    ELSE "end_turn"

FirstOfType(evs, type) == CHOOSE i \in 1..Len(evs) :
    evs[i].type = type /\ \A j \in 1..(i - 1) : evs[j].type # type

FinishDeltas == SelectSeq(Processed, LAMBDA d : d.finish_reason # "")

\* C9: once a finish_reason delta has been processed, the first
\* message_delta carries the mapped stop_reason of the first such delta, is
\* followed at once by message_stop, and comes after the content_block_stop
\* of the block that was open, which is the event just before it.
FinishOrder ==
    (variant = "proxy" /\ FinishDeltas # << >>) =>
        /\ Count(out, "message_delta") >= 1
        /\ LET m == FirstOfType(out, "message_delta")
           IN  /\ out[m].stop_reason = ExpectedStopReason(FinishDeltas[1].finish_reason)
               /\ m < Len(out)
               /\ out[m + 1].type = "message_stop"
               /\ \A i \in 1..m : out[i].type # "message_stop"
               /\ OpenBlocks(SubSeq(out, 1, m - 1)) = {}
               /\ Count(SubSeq(out, 1, m - 1), "content_block_start") > 0 =>
                      /\ IsStop(out[m - 1])
                      /\ OpenBlocks(SubSeq(out, 1, m - 2)) # {}

\* a finish_reason delta arrived while a block was open
FinishOrderWitness ==
    /\ variant = "proxy"
    /\ FinishDeltas # << >>
    /\ Count(out, "content_block_start") >= 2
    /\ out[Len(out)].type = "message_stop"

\* the names of the lines of a byte stream made of complete lines only
LineNames(bytes) ==
    LET ls == CompleteLines(bytes) IN [i \in 1..Len(ls) |-> ls[i][1].line]

\* the bytes are n >= 1 text-fragment lines followed by the finish_reason stop line
IsTextRun(bytes) ==
    /\ Len(bytes) >= 6
    /\ Last(bytes) = NL
    /\ \A i \in 1..Len(CompleteLines(bytes)) : Whole(CompleteLines(bytes)[i])
    /\ LET names == LineNames(bytes)
       IN  /\ Last(names) = "stop"
           /\ \A i \in 1..(Len(names) - 1) : names[i] \in {"hel", "lo"}

\* an event without its token counts
Shape(e) ==
    IF e.type = "message_start" THEN [type |-> "message_start"]
    ELSE IF e.type = "message_delta"
    THEN [type |-> "message_delta", stop_reason |-> e.stop_reason]
    ELSE e

\* what the client is to see for the text fragments named by names
ExpectedTextRun(names) ==
    <<[type |-> "message_start"],
      [type |-> "content_block_start", index |-> 0,
       content_block |-> [type |-> "text", text |-> ""]]>>
    \o [i \in 1..Len(names) |->
          [type |-> "content_block_delta", index |-> 0,
           delta |-> [type |-> "text_delta", text |-> Chunk(names[i]).content]]]
    \o <<[type |-> "content_block_stop", index |-> 0],
         [type |-> "message_delta", stop_reason |-> "end_turn"],
         [type |-> "message_stop"]>>

\* C10: n >= 1 text fragments followed by finish_reason stop yield exactly
\* message_start, content_block_start(0, text), the n text_delta events in
\* arrival order, content_block_stop(0), message_delta(end_turn), message_stop.
TextRunOutput ==
    (variant = "proxy" /\ IsTextRun(received)) =>
        [i \in 1..Len(out) |-> Shape(out[i])]
            = ExpectedTextRun(Front(LineNames(received)))

\* the session has processed 'Hel', 'lo' and finish_reason stop
TextRunOutputWitness ==
    /\ variant = "proxy"
    /\ LineNames(received) = <<"hel", "lo", "stop">>
    /\ IsTextRun(received)

\* the bytes are the fragment announcing call 0 (id c1, name search), then
\* m >= 0 argument fragments for call 0, then the finish_reason tool_calls line
IsToolRun(bytes) ==
    /\ Len(bytes) >= 6
    /\ Last(bytes) = NL
    /\ \A i \in 1..Len(CompleteLines(bytes)) : Whole(CompleteLines(bytes)[i])
    /\ LET names == LineNames(bytes)
       IN  /\ Head(names) = "t0open"
           /\ Last(names) = "toolcalls"
           /\ \A i \in 2..(Len(names) - 1) : names[i] \in {"t0argA", "t0argB"}

\* what the client is to see for call c1/search and the argument lines named
ExpectedToolRun(names) ==
    <<[type |-> "message_start"],
      [type |-> "content_block_start", index |-> 0,
       content_block |-> [type |-> "tool_use", id |-> "c1", name |-> "search"]]>>
    \o [i \in 1..Len(names) |->
          [type |-> "content_block_delta", index |-> 0,
           delta |-> [type |-> "input_json_delta",
                      partial_json |-> Chunk(names[i]).tool_calls[1].arguments]]]
    \o <<[type |-> "content_block_stop", index |-> 0],
         [type |-> "message_delta", stop_reason |-> "tool_use"],
         [type |-> "message_stop"]>>

\* C11: a tool call announced with (index, id, name), followed by m argument
\* fragments and finish_reason tool_calls, yields exactly message_start, one
\* content_block_start(tool_use, id, name), the m input_json_delta events in
\* arrival order, one content_block_stop, message_delta(tool_use), message_stop.
ToolRunOutput ==
    (variant = "proxy" /\ IsToolRun(received)) =>
        [i \in 1..Len(out) |-> Shape(out[i])]
            = ExpectedToolRun(SubSeq(LineNames(received), 2, Len(LineNames(received)) - 1))

\* the session has processed c1/search, '{"q":', '"x"}' and finish_reason
\* tool_calls, and the forwarded fragments concatenate to {"q":"x"}
ToolRunOutputWitness ==
    /\ variant = "proxy"
    /\ LineNames(received) = <<"t0open", "t0argA", "t0argB", "toolcalls">>
    /\ IsToolRun(received)
    /\ ConcatPartialJson(out) = "{\"q\":\"x\"}"

\* a data line whose payload is not JSON
BadLine == <<Piece("bad", 1), Piece("bad", 2)>>

\* a byte stream without its complete non-JSON data lines
RECURSIVE JoinLines(_)
JoinLines(ls) ==
    IF Len(ls) = 1 THEN Head(ls) ELSE Head(ls) \o <<NL>> \o JoinLines(Tail(ls))

WithoutBadLines(bytes) ==
    LET ls == SplitLines(bytes)
    IN  JoinLines(SelectSeq(Front(ls), LAMBDA t : t # BadLine) \o <<Last(ls)>>)

\* C12: in every state a session reaches, a data line that is not JSON is
\* processed without an event, a state change or an exception (both
\* implementations); and an apps/proxy session has emitted what it emits
\* for the same stream with those lines taken out.
BadLineSkipped ==
    /\ ProcessLine(variant, session, BadLine) = [st |-> session, ctl |-> "next"]
    /\ variant = "proxy" =>
           out = transform(variant, InitSession, WithoutBadLines(received)).st.out

\* a non-JSON line was processed between two text fragments
BadLineSkippedWitness ==
    /\ LineNames(received) = <<"hel", "bad", "lo">>
    /\ Last(received) = NL
    /\ Len(out) = 4

\* ---------------------------------------------------------------------
\* Request classification and routing (utils/detection.ts, server.ts)
\*
\* A text is a sequence of fragments; the sentinel strings of constants.ts
\* are fragments of their own, so "text.includes(pattern)" is "pattern is
\* one of the fragments", join('') is concatenation and the empty string
\* is the empty sequence.
\* ---------------------------------------------------------------------
WEB_SEARCH_SYSTEM_PATTERN == "performing a web search tool use"

\* the literal part of /Perform a web search for the query:\s*(.+)/i, in the
\* spellings the i flag accepts
WEB_SEARCH_MESSAGE_PATTERN ==
    {"Perform a web search for the query:", "perform a web search for the query:"}

SUGGESTION_MODE_PATTERN == "[SUGGESTION MODE:"

SIDECAR_PATTERNS ==
    {"Extract any file paths",
     "Analyze if this message indicates a new conversation topic",
     "Summarize this coding conversation"}

SUBAGENT_PATTERNS ==
    {"file search specialist",
     "software architect and planning specialist",
     "command execution specialist",
     "status line setup agent",
     "fast agent that returns output as quickly as possible",
     "claude-code-guide",
     "Given the user's message, you should use the tools available to complete the task"}

FREE_MODEL == <<"gpt-5-mini">>

\* String.prototype.includes
Includes(text, pattern) == \E i \in DOMAIN text : text[i] = pattern

\* Array.prototype.join('') and join('\n') of a sequence of texts
RECURSIVE Join(_)
Join(texts) ==
    IF texts = <<>> THEN <<>> ELSE Head(texts) \o Join(Tail(texts))

RECURSIVE JoinNewline(_)
JoinNewline(texts) ==
    IF texts = <<>> THEN <<>>
    ELSE IF Len(texts) = 1 THEN Head(texts)
    ELSE Head(texts) \o <<"\n">> \o JoinNewline(Tail(texts))

\* String.prototype.trim: white space is the fragment " "
RECURSIVE TrimStart(_)
TrimStart(text) ==
    IF text # <<>> /\ Head(text) = " " THEN TrimStart(Tail(text)) ELSE text

RECURSIVE TrimEnd(_)
TrimEnd(text) ==
    IF text # <<>> /\ Last(text) = " " THEN TrimEnd(Front(text)) ELSE text

Trim(text) == TrimEnd(TrimStart(text))

\* the content blocks of types/anthropic.ts
TextBlock(text) == [type |-> "text", text |-> text]

ImageBlock(mediaType, data) ==
    [type |-> "image", media_type |-> mediaType, data |-> data]

ToolUseBlock(id, name, input) ==
    [type |-> "tool_use", id |-> id, name |-> name, input |-> input]

ToolResultBlock(toolUseId, content) ==
    [type |-> "tool_result", tool_use_id |-> toolUseId, content |-> content]

\* "string | Array<...>": a content, a system prompt or a tool result is a
\* string or an array of blocks; a system prompt may also be absent
Str(text) == [kind |-> "string", text |-> text]

Blocks(blocks) == [kind |-> "blocks", blocks |-> blocks]

Message(role, content) == [role |-> role, content |-> content]

\* the texts of the text blocks of an array, in order
TextsOf(blocks) ==
    LET texts == SelectSeq(blocks, LAMBDA b : b.type = "text")
    IN  [i \in 1..Len(texts) |-> texts[i].text]

\* "Extract system prompt text from request"
getSystemText(request) ==
    IF request.system.kind = "absent" THEN <<>>
    ELSE IF request.system.kind = "string" THEN request.system.text
    ELSE Join(TextsOf(request.system.blocks))

\* "Extract text content from a message"
getMessageText(message) ==
    IF message.content.kind = "string" THEN message.content.text
    ELSE Join(TextsOf(message.content.blocks))

\* messageText.match(WEB_SEARCH_MESSAGE_PATTERN): the first place where the
\* literal part is followed by at least one character; match[1] is what
\* follows it on that line, less the white space \s* has taken
RegexMatch(text) ==
    LET at == {i \in 1..(Len(text) - 1) : text[i] \in WEB_SEARCH_MESSAGE_PATTERN}
    IN  IF at = {} THEN [matched |-> FALSE, group |-> <<>>]
        ELSE LET i == CHOOSE k \in at : \A j \in at : k <= j
                 rest == SubSeq(text, i + 1, Len(text))
             IN  [matched |-> TRUE,
                  group |-> IF TrimStart(rest) = <<>> THEN <<" ">> ELSE TrimStart(rest)]

\* the result of detectWebSearchRequest: null, or the query string
NullQuery == [isNull |-> TRUE, query |-> <<>>]

Query(text) == [isNull |-> FALSE, query |-> text]

\* "Detect if this is a dedicated web search execution request":
\* the search query if detected, null otherwise
detectWebSearchRequest(request) ==
    IF ~Includes(getSystemText(request), WEB_SEARCH_SYSTEM_PATTERN) THEN NullQuery
    ELSE IF Len(request.messages) # 1 THEN NullQuery
    ELSE LET match == RegexMatch(getMessageText(request.messages[1]))
         IN  IF match.matched THEN Query(Trim(match.group)) ELSE NullQuery

\* "if (searchQuery)": null and the empty string are falsy
Truthy(searchQuery) == ~searchQuery.isNull /\ searchQuery.query # <<>>

\* isSuggestionRequest reading string contents only
isSuggestionRequest_StringOnly(request) ==
    IF request.messages = <<>> THEN FALSE
    ELSE /\ Last(request.messages).content.kind = "string"
         /\ Includes(Last(request.messages).content.text, SUGGESTION_MODE_PATTERN)

\* "Detect if this is a suggestion request"
isSuggestionRequest(request) ==
    IF request.messages = <<>> THEN FALSE
    ELSE Includes(getMessageText(Last(request.messages)), SUGGESTION_MODE_PATTERN)

\* "Check if a message contains a tool_result block"
hasToolResult(message) ==
    IF message.content.kind = "string" THEN FALSE
    ELSE \E i \in DOMAIN message.content.blocks :
             message.content.blocks[i].type = "tool_result"

\* "Check if request is a sidecar utility call"
isSidecarRequest(request) ==
    \E pattern \in SIDECAR_PATTERNS : Includes(getSystemText(request), pattern)

\* "Check if request is a subagent"
isSubagentRequest(request) ==
    \E pattern \in SUBAGENT_PATTERNS : Includes(getSystemText(request), pattern)

\* getXInitiator looking for a tool_result in every message
getXInitiator_AnyToolResult(request) ==
    IF isSubagentRequest(request) THEN "agent"
    ELSE IF request.messages = <<>> THEN "user"
    ELSE IF \E i \in DOMAIN request.messages :
                request.messages[i].role = "user" /\ hasToolResult(request.messages[i])
         THEN "agent"
    ELSE IF Last(request.messages).role = "user" THEN "user" ELSE "agent"

\* "Determine the X-Initiator header value based on request type"
getXInitiator(request) ==
    IF isSubagentRequest(request) THEN "agent"
    ELSE IF request.messages = <<>> THEN "user"
    ELSE IF Last(request.messages).role = "user" /\ hasToolResult(Last(request.messages))
         THEN "agent"
    ELSE IF Last(request.messages).role = "user" THEN "user" ELSE "agent"

\* String.prototype.toLowerCase on the fragments of a model name
ToLowerCase(text) ==
    [i \in 1..Len(text) |->
        CASE text[i] = "Claude-" -> "claude-"
          [] text[i] = "GPT-4o"  -> "gpt-4o"
          [] text[i] = "Opus"    -> "opus"
          [] text[i] = "SONNET"  -> "sonnet"
          [] text[i] = "Haiku"   -> "haiku"
          [] OTHER               -> text[i]]

\* mapModel returning the lower-cased name in the fallback
mapModel_FallbackLowerCase(anthropicModel) ==
    LET model == ToLowerCase(anthropicModel)
    IN  IF Includes(model, "opus") THEN <<"claude-opus-4">>
        ELSE IF Includes(model, "sonnet") THEN <<"claude-sonnet-4.5">>
        ELSE IF Includes(model, "haiku") THEN <<"claude-haiku-4.5">>
        ELSE model

\* "Model mapping: Anthropic model IDs -> Copilot model IDs"
mapModel(anthropicModel) ==
    LET model == ToLowerCase(anthropicModel)
    IN  IF Includes(model, "opus") THEN <<"claude-opus-4">>
        ELSE IF Includes(model, "sonnet") THEN <<"claude-sonnet-4.5">>
        ELSE IF Includes(model, "haiku") THEN <<"claude-haiku-4.5">>
        ELSE anthropicModel

\* JSON.stringify and JSON.parse on the values that occur as tool input
\* (objects) and as the block array of a tool result; what JSON.parse cannot
\* read makes it throw
JsonStringify(value) ==
    CASE value = [q |-> "x"]   -> "{\"q\":\"x\"}"
      [] value = [url |-> "u"] -> "{\"url\":\"u\"}"
      [] value = Blocks(<<TextBlock(<<"ok">>)>>)
                               -> "[{\"type\":\"text\",\"text\":\"ok\"}]"
      [] OTHER                 -> "null"

JsonParses(string) == string \in {"{\"q\":\"x\"}", "{\"url\":\"u\"}"}

JsonParseObject(string) ==
    CASE string = "{\"q\":\"x\"}"   -> [q |-> "x"]
      [] string = "{\"url\":\"u\"}" -> [url |-> "u"]

\* the messages of types/openai.ts; content null is NullContent
NullContent == [kind |-> "null"]

ImageUrlPart(mediaType, data) ==
    [type |-> "image_url", url |-> <<"data:", mediaType, ";base64,", data>>]

\* transformContentToString
transformContentToString(content) ==
    IF content.kind = "string" THEN content.text
    ELSE Join(TextsOf(content.blocks))

\* transformContentToOpenAI: a string, or the text and image parts
transformContentToOpenAI(content) ==
    IF content.kind = "string" THEN content
    ELSE IF \A i \in DOMAIN content.blocks : content.blocks[i].type = "text"
         THEN Str(Join(TextsOf(content.blocks)))
    ELSE LET kept == SelectSeq(content.blocks,
                               LAMBDA b : b.type = "text" \/ b.type = "image")
         IN  Blocks([i \in 1..Len(kept) |->
                       IF kept[i].type = "text" THEN TextBlock(kept[i].text)
                       ELSE ImageUrlPart(kept[i].media_type, kept[i].data)])

\* extractToolCalls
extractToolCalls(blocks) ==
    LET uses == SelectSeq(blocks, LAMBDA b : b.type = "tool_use")
    IN  [i \in 1..Len(uses) |->
            [id |-> uses[i].id, type |-> "function", name |-> uses[i].name,
             arguments |-> JsonStringify(uses[i].input)]]

\* a content that is a JSON object, and what JSON.stringify returns for a
\* content that is not there: undefined, which is no string and which
\* JSON.stringify leaves out of the request body
Object(value) == [kind |-> "object", value |-> value]

Undefined == [kind |-> "undefined"]

\* the tool message made of one tool_result block
ToolMessage(block) ==
    [role |-> "tool",
     tool_call_id |-> block.tool_use_id,
     content |-> IF block.content.kind = "string" THEN block.content
                 ELSE IF block.content.kind = "absent" THEN Undefined
                 ELSE IF block.content.kind = "object"
                      THEN Str(<<JsonStringify(block.content.value)>>)
                 ELSE Str(<<JsonStringify(block.content)>>)]

\* ToolMessages giving the tool messages in reverse block order
ToolMessages_Reversed(toolResults) ==
    [i \in 1..Len(toolResults) |-> ToolMessage(toolResults[Len(toolResults) + 1 - i])]

\* "Return tool messages for each result"
ToolMessages(toolResults) ==
    [i \in 1..Len(toolResults) |-> ToolMessage(toolResults[i])]

\* transformMessage: the backend messages made of one inbound message
transformMessage(msg) ==
    IF msg.role = "user"
    THEN IF msg.content.kind = "blocks" /\ hasToolResult(msg)
         THEN ToolMessages(SelectSeq(msg.content.blocks,
                                     LAMBDA b : b.type = "tool_result"))
         ELSE <<[role |-> "user", content |-> transformContentToOpenAI(msg.content)]>>
    ELSE IF msg.content.kind = "string"
    THEN <<[role |-> "assistant", content |-> msg.content]>>
    ELSE LET toolCalls == extractToolCalls(msg.content.blocks)
             textContent == transformContentToString(msg.content)
             content == IF textContent # <<>> THEN Str(textContent) ELSE NullContent
         IN  IF toolCalls # <<>>
             THEN <<[role |-> "assistant", content |-> content, tool_calls |-> toolCalls]>>
             ELSE <<[role |-> "assistant", content |-> content]>>

\* "Transform messages": the runs of all messages, in order
RECURSIVE TransformMessages(_)
TransformMessages(messages) ==
    IF messages = <<>> THEN <<>>
    ELSE transformMessage(Head(messages)) \o TransformMessages(Tail(messages))

\* "Handle system prompt": '' is falsy, an empty array is not
SystemMessages(system) ==
    IF system.kind = "absent" \/ system = Str(<<>>) THEN <<>>
    ELSE IF system.kind = "string"
         THEN <<[role |-> "system", content |-> system]>>
    ELSE <<[role |-> "system", content |-> Str(JoinNewline(TextsOf(system.blocks)))]>>

\* transformRequest pushing the system message after the others
transformRequest_SystemLast(anthropic) ==
    [model |-> mapModel(anthropic.model),
     messages |-> TransformMessages(anthropic.messages) \o SystemMessages(anthropic.system),
     stream |-> anthropic.stream]

\* transformRequest: the fields of the backend request that depend on the
\* model, the system prompt and the messages
transformRequest(anthropic) ==
    [model |-> mapModel(anthropic.model),
     messages |-> SystemMessages(anthropic.system) \o TransformMessages(anthropic.messages),
     stream |-> anthropic.stream]

\* mapFinishReason of transform/response.ts
responseMapFinishReason(finishReason) ==
    CASE finishReason = "stop"           -> "end_turn"
      [] finishReason = "length"         -> "max_tokens"
      [] finishReason = "tool_calls"     -> "tool_use"
      [] finishReason = "content_filter" -> "end_turn"
      [] OTHER                           -> "null"

\* an OpenAIResponse: its choices hold at most one choice here; a message
\* content is a text or NullContent, tool_calls is a sequence of ToolCall
Choice(content, calls, finish) ==
    [content |-> content, tool_calls |-> calls, finish_reason |-> finish]

OpenAIResponse(choices) == [ok |-> TRUE, choices |-> choices, usage |-> Usage(7, 5)]

\* the tool_use blocks transformResponse makes of message.tool_calls
ToolUseBlocks(calls) ==
    [i \in 1..Len(calls) |->
        ToolUseBlock(calls[i].id, calls[i].name, JsonParseObject(calls[i].arguments))]

\* transformResponse handing out the position of a call as its id
transformResponse_PositionalIds(openai) ==
    LET choice == openai.choices[1]
    IN  [type |-> "message", role |-> "assistant",
         content |->
            (IF choice.content.kind = "string" /\ choice.content.text # <<>>
             THEN <<TextBlock(choice.content.text)>> ELSE <<>>)
            \o [i \in 1..Len(choice.tool_calls) |->
                  [ToolUseBlocks(choice.tool_calls)[i] EXCEPT
                      !.id = IF i = 1 THEN "toolu_1" ELSE "toolu_2"]],
         stop_reason |-> responseMapFinishReason(choice.finish_reason)]

\* transformResponse, where it returns
transformResponse(openai) ==
    LET choice == openai.choices[1]
    IN  [type |-> "message", role |-> "assistant",
         content |->
            (IF choice.content.kind = "string" /\ choice.content.text # <<>>
             THEN <<TextBlock(choice.content.text)>> ELSE <<>>)
            \o ToolUseBlocks(choice.tool_calls),
         stop_reason |-> responseMapFinishReason(choice.finish_reason)]

\* transformResponse throws: "No choices in OpenAI response", or JSON.parse
\* on the arguments of a call
transformResponseThrows(openai) ==
    \/ openai.choices = <<>>
    \/ \E i \in DOMAIN openai.choices[1].tool_calls :
           ~JsonParses(openai.choices[1].tool_calls[i].arguments)

\* ---------------------------------------------------------------------
\* The inbound requests, and what the backend answers
\* ---------------------------------------------------------------------
Models ==
    {<<"claude-", "opus", "-4-5">>, <<"Claude-", "SONNET", "-4">>,
     <<"claude-3-5-", "Haiku">>, <<"GPT-4o">>,
     <<"Haiku", "-", "SONNET", "-", "Opus">>}

Systems ==
    {Absent,
     Str(<<"You are Claude Code">>),
     Str(<<"You are an assistant for ", WEB_SEARCH_SYSTEM_PATTERN>>),
     Blocks(<<TextBlock(<<"You are Claude Code">>),
              TextBlock(<<"Extract any file paths">>)>>),
     Str(<<"You are a ", "file search specialist">>),
     Blocks(<<TextBlock(<<"Summarize this coding conversation">>),
              TextBlock(<<"claude-code-guide">>)>>)}

SearchInput == [q |-> "x"]

FetchInput == [url |-> "u"]

\* what a user message may hold
UserContents ==
    {Str(<<"hi">>),
     Str(<<SUGGESTION_MODE_PATTERN, "next">>),
     Str(<<"perform a web search for the query:", " ", "cats", " ">>),
     Str(<<"Perform a web search for the query:", " ">>),
     Blocks(<<ToolResultBlock("c1", Str(<<"ok">>)),
              TextBlock(<<"Perform a web search for the query:", "cats">>),
              TextBlock(<<SUGGESTION_MODE_PATTERN>>)>>),
     Blocks(<<ToolResultBlock("c1", Str(<<"ok">>))>>),
     Blocks(<<ToolResultBlock("c1", Str(<<"ok">>)),
              TextBlock(<<SUGGESTION_MODE_PATTERN, "next">>)>>),
     Blocks(<<ToolResultBlock("c2", Blocks(<<TextBlock(<<"ok">>)>>)),
              ToolResultBlock("c1", Str(<<"ok">>))>>),
     Blocks(<<TextBlock(<<"look">>), ImageBlock("image/png", "AAAA")>>),
     Blocks(<<ToolResultBlock("c2", Object(SearchInput)),
              ToolResultBlock("c1", Absent)>>)}

\* what an assistant message may hold
AssistantContents ==
    {Str(<<"ok">>),
     Str(<<>>),
     Blocks(<<TextBlock(<<>>)>>),
     Blocks(<<TextBlock(<<"hi">>), ToolUseBlock("c1", "search", SearchInput)>>),
     Blocks(<<ToolUseBlock("c2", "fetch", FetchInput),
              ToolUseBlock("c1", "search", SearchInput)>>)}

LastMessages ==
    {Message("user", c) : c \in UserContents}
        \cup {Message("assistant", c) : c \in AssistantContents}

\* the messages before the last one
EarlierMessages ==
    {Message("assistant",
             Blocks(<<TextBlock(<<"hi">>), ToolUseBlock("c1", "search", SearchInput)>>)),
     Message("user", Blocks(<<ToolResultBlock("c1", Str(<<"ok">>))>>)),
     Message("user", Str(<<SUGGESTION_MODE_PATTERN,
                           "Perform a web search for the query:", "dogs">>))}

\* the message lists of at most n messages
RECURSIVE Histories(_)
Histories(n) ==
    IF n = 0 THEN {<<>>}
    ELSE Histories(n - 1)
            \cup {<<e>> \o h : e \in EarlierMessages, h \in {g \in Histories(n - 1) : Len(g) = n - 1}}

MessageLists ==
    {<<>>} \cup {h \o <<m>> : h \in Histories(MaxMessages - 1), m \in LastMessages}

Requests ==
    [model : Models, system : Systems, messages : MessageLists, stream : BOOLEAN]

\* the chat completions the backend may return
BackendResponses ==
    {OpenAIResponse(<<Choice(Str(<<"Hel", "lo">>), <<>>, "stop")>>),
     OpenAIResponse(<<Choice(NullContent,
                             <<ToolCall(0, "c1", "search", "{\"q\":\"x\"}")>>,
                             "tool_calls")>>),
     OpenAIResponse(<<Choice(Str(<<"Hel">>),
                             <<ToolCall(0, "c2", "fetch", "{\"url\":\"u\"}"),
                               ToolCall(1, "c1", "search", "{\"q\":\"x\"}")>>,
                             "tool_calls")>>),
     OpenAIResponse(<<>>)}

\* the same completion as the chunks of a streamed reply
StreamOf(openai) ==
    IF openai.choices = <<>> THEN <<NoChoicesField>>
    ELSE LET choice == openai.choices[1]
             text == IF choice.content.kind = "string" THEN choice.content.text ELSE <<>>
         IN  [i \in 1..Len(text) |-> Delta(text[i], <<>>, "", NoUsage)]
             \o [i \in 1..Len(choice.tool_calls) |->
                   Delta("", <<choice.tool_calls[i]>>, "", NoUsage)]
             \o <<Delta("", <<>>, choice.finish_reason, openai.usage)>>

\* a createStreamTransformer session fed the chunks of a reply
RECURSIVE ProcessChunks(_, _)
ProcessChunks(st, chunks) ==
    IF chunks = <<>> THEN [st |-> st, ctl |-> "next"]
    ELSE LET r == ProcessChunk("proxy", st, Head(chunks))
         IN  IF r.ctl = "next" THEN ProcessChunks(r.st, Tail(chunks)) ELSE r

\* ---------------------------------------------------------------------
\* POST /v1/messages
\* ---------------------------------------------------------------------
\* the dispatch of the main endpoint: the handler the request is given to
Dispatch(request, enabled) ==
    IF enabled /\ Truthy(detectWebSearchRequest(request)) THEN "webSearch"
    ELSE IF isSuggestionRequest(request) THEN "suggestion"
    ELSE IF isSidecarRequest(request) THEN "sidecar"
    ELSE "normal"

\* handleFreeModelRequest sending the mapped model of the request
handleFreeModelRequest_NoOverride(request) ==
    [made |-> TRUE, xInitiator |-> "agent", body |-> transformRequest(request)]

\* handleFreeModelRequest up to its fetch: "Override model to free model"
handleFreeModelRequest(request) ==
    [made |-> TRUE, xInitiator |-> "agent",
     body |-> [transformRequest(request) EXCEPT !.model = FREE_MODEL]]

\* handleNormalRequest up to its fetch
handleNormalRequest(request) ==
    [made |-> TRUE, xInitiator |-> getXInitiator(request),
     body |-> transformRequest(request)]

\* handleWebSearchRequest: the search result as a reply, or the empty reply
\* of its catch branch
handleWebSearchRequest(request, searchQuery, found) ==
    IF found THEN [kind |-> "search", query |-> searchQuery]
    ELSE [kind |-> "empty"]

\* executeWebSearch resolved, or rejected; and a fetch that rejects because
\* the backend cannot be reached, which no handler catches
SearchDone == [ok |-> TRUE, status |-> "search", choices |-> <<>>]

SearchFailed == [ok |-> FALSE, status |-> "search"]

Unreachable == [ok |-> FALSE, status |-> "unreachable"]

\* handleCopilotError: the error payload of a backend status that is not 2xx
handleCopilotError == [kind |-> "error", type |-> "api_error"]

\* the rest of both handlers once the backend has answered 2xx: the
\* transcoded stream, or the transformed response; an exception of
\* transformResponse leaves the handler
HandleResponse(request, openai) ==
    IF request.stream
    THEN LET r == ProcessChunks(InitSession, StreamOf(openai))
         IN  [kind |-> "stream", events |-> r.st.out, errored |-> r.ctl = "throw"]
    ELSE IF transformResponseThrows(openai) THEN [kind |-> "exception"]
    ELSE [kind |-> "message", message |-> transformResponse(openai)]

\* the content blocks a client reads off a streamed reply
HasIndex(e, i) == "index" \in DOMAIN e /\ e.index = i

BlockOfStream(events, start) ==
    LET mine == SelectSeq(events, LAMBDA e : HasIndex(e, start.index))
        texts == SelectSeq(mine, LAMBDA e : e.type = "content_block_delta"
                                             /\ e.delta.type = "text_delta")
    IN  IF start.content_block.type = "text"
        THEN TextBlock([i \in 1..Len(texts) |-> texts[i].delta.text])
        ELSE ToolUseBlock(start.content_block.id, start.content_block.name,
                          ConcatPartialJson(mine))

ContentOfStream(events) ==
    LET starts == SelectSeq(events, LAMBDA e : e.type = "content_block_start")
    IN  [i \in 1..Len(starts) |->
            LET b == BlockOfStream(events, starts[i])
            IN  IF b.type = "tool_use" /\ JsonParses(b.input)
                THEN [b EXCEPT !.input = JsonParseObject(b.input)] ELSE b]

\* the content of the assistant turn the client was sent
ContentOf(r) ==
    IF r.kind = "message" THEN r.message.content
    ELSE IF r.kind = "stream" /\ ~r.errored THEN ContentOfStream(r.events)
    ELSE <<>>

ToolUsesOf(r) == SelectSeq(ContentOf(r), LAMBDA b : b.type = "tool_use")

\* the client's next request: the assistant turn it was sent, and the
\* results of the tools that turn asked for
NextRequest(request, r) ==
    [request EXCEPT !.messages =
        @ \o <<Message("assistant", Blocks(ContentOf(r))),
               Message("user",
                       Blocks([i \in 1..Len(ToolUsesOf(r)) |->
                                 ToolResultBlock(ToolUsesOf(r)[i].id, Str(<<"ok">>))]))>>]

RouteInit ==
    /\ anthropicRequest \in Requests
    /\ webSearchEnabled \in BOOLEAN
    /\ turn = 1
    /\ phase = "received"
    /\ route = "none"
    /\ call = NoCall
    /\ openaiResponse = NoAnswer
    /\ reply = NoReply
    /\ TokenIdle
    /\ PairIdle
    /\ DaemonIdle
    /\ variant = "proxy"
    /\ alphabet = {}
    /\ session = InitSession
    /\ wire = << >>
    /\ received = << >>
    /\ status = "unused"
    /\ client = "connected"

\* the handler of POST /v1/messages, up to the backend call or, for a web
\* search, to its reply
PostMessages ==
    /\ phase = "received"
    /\ route' = Dispatch(anthropicRequest, webSearchEnabled)
    /\ IF route' = "webSearch"
       THEN /\ call' = NoCall
            /\ \E found \in BOOLEAN :
                 /\ openaiResponse' = IF found THEN SearchDone ELSE SearchFailed
                 /\ reply' = handleWebSearchRequest(anthropicRequest,
                                 detectWebSearchRequest(anthropicRequest).query, found)
            /\ phase' = "replied"
       ELSE /\ call' = IF route' = "normal"
                       THEN handleNormalRequest(anthropicRequest)
                       ELSE handleFreeModelRequest(anthropicRequest)
            /\ reply' = NoReply
            /\ phase' = "forwarded"
            /\ UNCHANGED openaiResponse
    /\ UNCHANGED <<anthropicRequest, webSearchEnabled, turn>>
    /\ UNCHANGED streamVars
    /\ UNCHANGED tokenVars
    /\ UNCHANGED pairVars
    /\ UNCHANGED daemonVars

\* the backend answers the call and the handler finishes
BackendResponds ==
    /\ phase = "forwarded"
    /\ \E answer \in BackendResponses \cup {NotOk, Unreachable} :
         /\ openaiResponse' = answer
         /\ reply' = IF answer.ok THEN HandleResponse(anthropicRequest, answer)
                      ELSE IF answer = Unreachable THEN [kind |-> "exception"]
                      ELSE handleCopilotError
    /\ phase' = "replied"
    /\ UNCHANGED <<anthropicRequest, webSearchEnabled, turn, route, call>>
    /\ UNCHANGED streamVars
    /\ UNCHANGED tokenVars
    /\ UNCHANGED pairVars
    /\ UNCHANGED daemonVars

\* the client runs the tools it was asked for and posts the next request
ClientContinues ==
    /\ phase = "replied"
    /\ turn < MaxTurns
    /\ ToolUsesOf(reply) # << >>
    /\ anthropicRequest' = NextRequest(anthropicRequest, reply)
    /\ turn' = turn + 1
    /\ phase' = "received"
    /\ route' = "none"
    /\ call' = NoCall
    /\ reply' = NoReply
    /\ UNCHANGED <<webSearchEnabled, openaiResponse>>
    /\ UNCHANGED streamVars
    /\ UNCHANGED tokenVars
    /\ UNCHANGED pairVars
    /\ UNCHANGED daemonVars

RouteNext == PostMessages \/ BackendResponds \/ ClientContinues

RouteSpec == RouteInit /\ [][RouteNext]_vars

\* ---------------------------------------------------------------------
\* Routing claims
\* ---------------------------------------------------------------------
\* the request has been dispatched
Dispatched == phase \in {"forwarded", "replied"}

\* the routing category a dispatched request was handled as: the handler it
\* was given to and, for handleNormalRequest, the X-Initiator it was sent with
Category ==
    CASE route = "webSearch"  -> "DedicatedToolExecution"
      [] route = "suggestion" -> "SuggestionStub"
      [] route = "sidecar"    -> "SyntheticUtility"
      [] route = "normal" /\ call.xInitiator = "agent" -> "AgentContinuation"
      [] route = "normal" /\ call.xInitiator = "user"  -> "DirectUserTurn"
      [] OTHER -> "none"

\* the conditions of the routing rules, as stated for the classifier
WebSearchRule(request) ==
    /\ Includes(getSystemText(request), WEB_SEARCH_SYSTEM_PATTERN)
    /\ Len(request.messages) = 1
    /\ RegexMatch(getMessageText(request.messages[1])).matched

SuggestionRule(request) ==
    /\ request.messages # <<>>
    /\ Includes(getMessageText(Last(request.messages)), SUGGESTION_MODE_PATTERN)

EndsInToolResult(request) ==
    /\ request.messages # <<>>
    /\ Last(request.messages).role = "user"
    /\ hasToolResult(Last(request.messages))

EndsInUserTurn(request) ==
    /\ request.messages # <<>>
    /\ Last(request.messages).role = "user"

\* the first rule that matches, in the fixed order
FirstMatch(request) ==
    IF WebSearchRule(request) THEN "DedicatedToolExecution"
    ELSE IF SuggestionRule(request) THEN "SuggestionStub"
    ELSE IF isSidecarRequest(request) THEN "SyntheticUtility"
    ELSE IF EndsInToolResult(request) \/ isSubagentRequest(request)
         THEN "AgentContinuation"
    ELSE IF EndsInUserTurn(request) THEN "DirectUserTurn"
    ELSE "AgentContinuation"

\* C13: with web search switched on, every dispatched request is handled as
\* exactly the category of the first rule that matches it, in the order
\* DedicatedToolExecution, SuggestionStub, SyntheticUtility,
\* AgentContinuation, DirectUserTurn (AgentContinuation when none does).
RoutingFirstMatch ==
    (Dispatched /\ webSearchEnabled) => Category = FirstMatch(anthropicRequest)

\* the same, leaving out the requests without messages and the web search
\* requests whose query is white space only
RoutingFirstMatchNonEmpty ==
    (/\ Dispatched
     /\ webSearchEnabled
     /\ anthropicRequest.messages # <<>>
     /\ WebSearchRule(anthropicRequest)
            => Truthy(detectWebSearchRequest(anthropicRequest)))
        => Category = FirstMatch(anthropicRequest)

NoUserTurnIsAgent ==
    (/\ Dispatched
     /\ route = "normal"
     /\ ~EndsInUserTurn(anthropicRequest))
        => call.xInitiator = "agent"

\* the same for the requests that have a last message
NoUserTurnIsAgentNonEmpty ==
    (/\ Dispatched
     /\ route = "normal"
     /\ anthropicRequest.messages # <<>>
     /\ ~EndsInUserTurn(anthropicRequest))
        => call.xInitiator = "agent"

\* C16: the X-Initiator of every backend call is user or agent; it is user
\* only when the last message has role user, holds no tool_result and no
\* web-search, suggestion, sidecar or sub-agent rule matches; tool-result
\* continuations, sub-agent, suggestion and sidecar requests go with agent.
InitiatorUserOnlyForDirectTurn ==
    call.made =>
        /\ call.xInitiator \in {"user", "agent"}
        /\ call.xInitiator = "user" =>
              /\ EndsInUserTurn(anthropicRequest)
              /\ ~EndsInToolResult(anthropicRequest)
              /\ ~SuggestionRule(anthropicRequest)
              /\ ~isSidecarRequest(anthropicRequest)
              /\ ~isSubagentRequest(anthropicRequest)
              /\ webSearchEnabled => ~Truthy(detectWebSearchRequest(anthropicRequest))
        /\ (\/ EndsInToolResult(anthropicRequest)
            \/ SuggestionRule(anthropicRequest)
            \/ isSidecarRequest(anthropicRequest)
            \/ isSubagentRequest(anthropicRequest)) => call.xInitiator = "agent"

\* the same for the requests that have a last message
InitiatorUserOnlyForDirectTurnNonEmpty ==
    anthropicRequest.messages # <<>> => InitiatorUserOnlyForDirectTurn

\* the request with every message before the last replaced by an empty
\* assistant turn: same system text, same number of messages, same last
\* message
WithoutHistory(request) ==
    [request EXCEPT !.messages =
        [i \in 1..Len(@) |-> IF i = Len(@) THEN @[i] ELSE Message("assistant", Str(<<>>))]]

\* the handler and X-Initiator a request gets
Decision(request, enabled) ==
    LET handler == Dispatch(request, enabled)
    IN  [route |-> handler,
         xInitiator |-> IF handler = "webSearch" THEN "none"
                        ELSE IF handler = "normal" THEN handleNormalRequest(request).xInitiator
                        ELSE handleFreeModelRequest(request).xInitiator]

\* C17: the handler and the X-Initiator of a dispatched request are those of
\* the request with the same system text, the same number of messages and
\* the same last message whose earlier messages are all blank; so any two
\* requests that differ only in earlier messages are decided alike.
DecisionIgnoresHistory ==
    Dispatched =>
        /\ Decision(anthropicRequest, webSearchEnabled)
             = Decision(WithoutHistory(anthropicRequest), webSearchEnabled)
        /\ route = Decision(WithoutHistory(anthropicRequest), webSearchEnabled).route
        /\ call.made =>
             call.xInitiator
               = Decision(WithoutHistory(anthropicRequest), webSearchEnabled).xInitiator

\* a request that ends in a plain user turn was sent as a user turn although
\* its system prompt is the web search one and an earlier message holds the
\* suggestion marker and a web search query
DecisionIgnoresHistoryWitness ==
    /\ phase = "forwarded"
    /\ webSearchEnabled
    /\ Includes(getSystemText(anthropicRequest), WEB_SEARCH_SYSTEM_PATTERN)
    /\ Len(anthropicRequest.messages) >= 2
    /\ \E i \in 1..(Len(anthropicRequest.messages) - 1) :
          /\ Includes(getMessageText(anthropicRequest.messages[i]), SUGGESTION_MODE_PATTERN)
          /\ RegexMatch(getMessageText(anthropicRequest.messages[i])).matched
    /\ Last(anthropicRequest.messages) = Message("user", Str(<<"hi">>))
    /\ route = "normal"
    /\ call.xInitiator = "user"

ToolResultsOf(msg) ==
    IF msg.content.kind = "blocks"
    THEN SelectSeq(msg.content.blocks, LAMBDA b : b.type = "tool_result")
    ELSE <<>>

ToolUsesIn(msg) ==
    IF msg.content.kind = "blocks"
    THEN SelectSeq(msg.content.blocks, LAMBDA b : b.type = "tool_use")
    ELSE <<>>

\* the tool_use_id of the tool_result blocks of the user messages of a
\* list, and the id of the tool_use blocks of its assistant messages
RECURSIVE ResultIds(_)
ResultIds(messages) ==
    IF messages = <<>> THEN <<>>
    ELSE (IF Head(messages).role = "user"
          THEN [k \in 1..Len(ToolResultsOf(Head(messages))) |->
                   ToolResultsOf(Head(messages))[k].tool_use_id]
          ELSE <<>>) \o ResultIds(Tail(messages))

RECURSIVE UseIds(_)
UseIds(messages) ==
    IF messages = <<>> THEN <<>>
    ELSE (IF Head(messages).role = "assistant"
          THEN [k \in 1..Len(ToolUsesIn(Head(messages))) |-> ToolUsesIn(Head(messages))[k].id]
          ELSE <<>>) \o UseIds(Tail(messages))

\* the tool_call_id of the tool messages of a backend body, and the id of
\* the tool_calls of its assistant messages
ToolCallIds(body) ==
    LET tools == SelectSeq(body, LAMBDA m : m.role = "tool")
    IN  [k \in 1..Len(tools) |-> tools[k].tool_call_id]

RECURSIVE CallIds(_)
CallIds(body) ==
    IF body = <<>> THEN <<>>
    ELSE (IF "tool_calls" \in DOMAIN Head(body)
          THEN [k \in 1..Len(Head(body).tool_calls) |-> Head(body).tool_calls[k].id]
          ELSE <<>>) \o CallIds(Tail(body))

\* C19: in a forwarded request every user message with N >= 1 tool_result
\* blocks becomes exactly N messages of role tool, the k-th naming the
\* tool_use_id of the k-th block; and the tool messages of the backend body
\* are those of all user messages, in order.
ToolResultsFlattened ==
    call.made =>
        /\ \A i \in DOMAIN anthropicRequest.messages :
             LET msg == anthropicRequest.messages[i]
                 results == ToolResultsOf(msg)
                 run == transformMessage(msg)
             IN  (msg.role = "user" /\ Len(results) >= 1) =>
                    /\ Len(run) = Len(results)
                    /\ \A k \in 1..Len(run) :
                          /\ run[k].role = "tool"
                          /\ run[k].tool_call_id = results[k].tool_use_id
        /\ ToolCallIds(call.body.messages) = ResultIds(anthropicRequest.messages)

\* a user message with the results of c2 and c1, in this order, went out as
\* two tool messages for c2 and c1
ToolResultsFlattenedWitness ==
    /\ call.made
    /\ \E i \in DOMAIN anthropicRequest.messages :
          /\ anthropicRequest.messages[i].role = "user"
          /\ Len(ToolResultsOf(anthropicRequest.messages[i])) = 2
          /\ ToolResultsOf(anthropicRequest.messages[i])[1].tool_use_id = "c2"
    /\ \E j \in 1..(Len(call.body.messages) - 1) :
          /\ call.body.messages[j].role = "tool"
          /\ call.body.messages[j].tool_call_id = "c2"
          /\ call.body.messages[j + 1].role = "tool"
          /\ call.body.messages[j + 1].tool_call_id = "c1"

\* the ids the backend gave the tool calls of its latest answer
IssuedIds ==
    IF openaiResponse.ok /\ openaiResponse.choices # <<>>
    THEN [k \in 1..Len(openaiResponse.choices[1].tool_calls) |->
             openaiResponse.choices[1].tool_calls[k].id]
    ELSE <<>>

\* the client was sent a complete assistant turn
TurnDelivered ==
    /\ phase = "replied"
    /\ \/ reply.kind = "message"
       \/ reply.kind = "stream" /\ ~reply.errored

\* C20: tool-call identifiers are carried verbatim. Request direction: the
\* tool_calls ids of the backend body are the tool_use ids of the assistant
\* messages and its tool_call_ids the tool_use_ids of the tool results, in
\* order. Response direction, streamed or not: the tool_use ids the client
\* is sent are the ids the backend issued. Round trip: when the client
\* posts the turn it was sent and the results of its tools, the backend
\* body ends with an assistant message whose tool_calls carry the issued
\* ids and one tool message per id carrying the same id.
IdsCarriedVerbatim ==
    /\ call.made =>
          /\ CallIds(call.body.messages) = UseIds(anthropicRequest.messages)
          /\ ToolCallIds(call.body.messages) = ResultIds(anthropicRequest.messages)
    /\ TurnDelivered =>
          [k \in 1..Len(ToolUsesOf(reply)) |-> ToolUsesOf(reply)[k].id] = IssuedIds
    /\ (turn > 1 /\ phase = "forwarded") =>
          LET body == call.body.messages
              m == Len(body)
              n == Len(IssuedIds)
          IN  /\ n >= 1
              /\ m >= n + 1
              /\ CallIds(<<body[m - n]>>) = IssuedIds
              /\ \A k \in 1..n :
                    /\ body[m - n + k].role = "tool"
                    /\ body[m - n + k].tool_call_id = IssuedIds[k]

\* the backend issued c2 and c1 in a streamed answer, and the next request
\* of the conversation carried both ids back to it
IdsCarriedVerbatimWitness ==
    /\ turn = 2
    /\ phase = "forwarded"
    /\ anthropicRequest.stream
    /\ IssuedIds = <<"c2", "c1">>
    /\ ToolCallIds(call.body.messages)
         = ResultIds(SubSeq(anthropicRequest.messages, 1,
                            Len(anthropicRequest.messages) - 1)) \o <<"c2", "c1">>

\* ---------------------------------------------------------------------
\* Request transformation claims
\* ---------------------------------------------------------------------
\* the fragments of text the backend messages carry, as string content or
\* as text parts
TextFragments(messages) ==
    UNION {
        IF messages[i].content.kind = "string"
        THEN {messages[i].content.text[k] : k \in DOMAIN messages[i].content.text}
        ELSE IF messages[i].content.kind = "blocks"
        THEN UNION {
                 IF messages[i].content.blocks[j].type = "text"
                 THEN {messages[i].content.blocks[j].text[k] :
                          k \in DOMAIN messages[i].content.blocks[j].text}
                 ELSE {} : j \in DOMAIN messages[i].content.blocks}
        ELSE {} : i \in DOMAIN messages}

\* the image parts the backend messages carry
ImageParts(messages) ==
    UNION {
        IF messages[i].content.kind = "blocks"
        THEN {messages[i].content.blocks[j] :
                 j \in {n \in DOMAIN messages[i].content.blocks :
                           messages[i].content.blocks[n].type = "image_url"}}
        ELSE {} : i \in DOMAIN messages}

\* the text and the image blocks of an inbound message are in the backend
\* messages
BlocksKept(msg, messages) ==
    msg.content.kind = "blocks" =>
        \A j \in DOMAIN msg.content.blocks :
            LET b == msg.content.blocks[j]
            IN  /\ b.type = "text" =>
                     \A k \in DOMAIN b.text : b.text[k] \in TextFragments(messages)
                /\ b.type = "image" =>
                     ImageUrlPart(b.media_type, b.data) \in ImageParts(messages)

\* C21: every text block and every image block of every inbound message
\* appears in the backend request, whatever other block types the same
\* message holds.
ContentLossless ==
    call.made =>
        \A i \in DOMAIN anthropicRequest.messages :
            BlocksKept(anthropicRequest.messages[i], call.body.messages)

\* the same for the messages that hold no tool_result block
ContentLosslessWithoutToolResult ==
    call.made =>
        \A i \in DOMAIN anthropicRequest.messages :
            ~hasToolResult(anthropicRequest.messages[i]) =>
                BlocksKept(anthropicRequest.messages[i], call.body.messages)

\* the tool_result blocks of the user messages of a request
ToolResultBlocksOf(request) ==
    UNION {
        IF request.messages[i].role = "user" /\ request.messages[i].content.kind = "blocks"
        THEN {request.messages[i].content.blocks[j] :
                 j \in {n \in DOMAIN request.messages[i].content.blocks :
                           request.messages[i].content.blocks[n].type = "tool_result"}}
        ELSE {} : i \in DOMAIN request.messages}

\* the string a tool_result block is to be forwarded as
ExpectedToolContent(block) ==
    IF block.content.kind = "string" THEN block.content
    ELSE IF block.content.kind = "object" THEN Str(<<JsonStringify(block.content.value)>>)
    ELSE Str(<<JsonStringify(block.content)>>)

\* the block is forwarded as a tool message with string content
ForwardedAsString(block, messages) ==
    \E i \in DOMAIN messages :
        /\ messages[i].role = "tool"
        /\ messages[i].tool_call_id = block.tool_use_id
        /\ messages[i].content.kind = "string"
        /\ messages[i].content = ExpectedToolContent(block)

\* C22: every tool_result block yields a tool message whose content is a
\* string, the block's content itself or its JSON serialization, whatever
\* the shape of that content.
ToolResultContentIsString ==
    call.made =>
        \A b \in ToolResultBlocksOf(anthropicRequest) :
            ForwardedAsString(b, call.body.messages)

\* the same for the tool_result blocks that have a content
ToolResultContentIsStringWhenPresent ==
    call.made =>
        \A b \in ToolResultBlocksOf(anthropicRequest) :
            b.content.kind # "absent" => ForwardedAsString(b, call.body.messages)

\* the backend messages of role assistant
AssistantMessages(messages) == SelectSeq(messages, LAMBDA m : m.role = "assistant")

\* a non-empty string, or null
NonEmptyOrNull(content) ==
    \/ content.kind = "null"
    \/ content.kind = "string" /\ content.text # << >>

\* C23: the content of every assistant message of the backend request is a
\* non-empty string or null, never the empty string.
AssistantContentNeverEmpty ==
    call.made =>
        \A i \in DOMAIN AssistantMessages(call.body.messages) :
            NonEmptyOrNull(AssistantMessages(call.body.messages)[i].content)

\* the same for requests whose assistant messages hold blocks or a string
\* that is not empty
AssistantContentNeverEmptyFromBlocks ==
    (/\ call.made
     /\ \A i \in DOMAIN anthropicRequest.messages :
            anthropicRequest.messages[i] # Message("assistant", Str(<<>>)))
        => \A i \in DOMAIN AssistantMessages(call.body.messages) :
               NonEmptyOrNull(AssistantMessages(call.body.messages)[i].content)

\* the name contains one of the spellings of a family token
NamesFamily(name, spellings) == \E i \in DOMAIN name : name[i] \in spellings

\* the backend model of a name, family by family
ExpectedModel(name) ==
    IF NamesFamily(name, {"opus", "Opus"}) THEN <<"claude-opus-4">>
    ELSE IF NamesFamily(name, {"sonnet", "SONNET"}) THEN <<"claude-sonnet-4.5">>
    ELSE IF NamesFamily(name, {"haiku", "Haiku"}) THEN <<"claude-haiku-4.5">>
    ELSE name

FinishKinds == {"stop", "length", "toolcalls", "filter", "funcall"}

\* the events of evs after the first n
After(evs, n) == SubSeq(evs, n + 1, Len(evs))

StopReasons == {"end_turn", "max_tokens", "tool_use"}

\* the session is given the finish line l next: it does not fail, and the
\* message_delta it emits carries the stop_reason of l's finish_reason
FinishLineMapped(l) ==
    LET r == ProcessLine(variant, session, <<Piece(l, 1), Piece(l, 2)>>)
        new == SelectSeq(After(r.st.out, Len(out)), LAMBDA e : e.type = "message_delta")
        expected == CASE l = "stop"      -> "end_turn"
                      [] l = "length"    -> "max_tokens"
                      [] l = "toolcalls" -> "tool_use"
                      [] OTHER           -> "end_turn"
    IN  /\ r.ctl = "next"
        /\ \A i \in DOMAIN new : new[i].stop_reason = expected
        /\ (variant = "legacy" \/ ~session.sentMessageStop) => Len(new) = 1

\* C25: stop maps to end_turn, length to max_tokens, tool_calls to tool_use
\* and every other finish_reason to end_turn; no finish_reason makes the
\* session fail, and every message_delta carries a stop_reason.  The
\* map is applied to each finish_reason in every session state of the
\* replies made of FinishLines (the session changes in Transform only,
\* which empties the wire, so the states with an empty wire hold them all).
FinishReasonMapped ==
    /\ (alphabet = FinishLines /\ wire = << >>) =>
           \A l \in FinishKinds : FinishLineMapped(l)
    /\ \A i \in DOMAIN out :
           out[i].type = "message_delta" => out[i].stop_reason \in StopReasons

\* a finish_reason without a case of its own has ended a reply
FinishReasonMappedWitness ==
    /\ status = "closed"
    /\ \E i \in DOMAIN Processed :
           Processed[i].finish_reason \in {"content_filter", "function_call"}
    /\ \E i \in DOMAIN out :
           out[i].type = "message_delta" /\ out[i].stop_reason = "end_turn"
    /\ out[Len(out)].type = "message_stop"

\* ---------------------------------------------------------------------
\* Failure claims
\* ---------------------------------------------------------------------
\* the handler has replied and its backend call, or its search, failed
BackendFailed == phase = "replied" /\ ~openaiResponse.ok

\* a stream that ends with the terminal pair
IsTerminalStream(r) ==
    /\ r.kind = "stream"
    /\ Len(r.events) >= 2
    /\ r.events[Len(r.events) - 1].type = "message_delta"
    /\ r.events[Len(r.events)].type = "message_stop"

\* C26: when the backend call fails the client receives one structured
\* error payload (non-streaming request) or a synthetic terminal stream
\* (streaming request), and never an empty successful reply.
BackendFailureSurfaced ==
    BackendFailed =>
        /\ reply.kind # "empty"
        /\ IF anthropicRequest.stream THEN IsTerminalStream(reply)
           ELSE reply.kind = "error"

\* a status that is not 2xx is answered with the error payload, whether or
\* not the request asked for a stream
StatusErrorIsErrorPayload ==
    (BackendFailed /\ openaiResponse = NotOk) => reply = handleCopilotError

\* ---------------------------------------------------------------------
\* Disconnection
\* ---------------------------------------------------------------------
\* C27: once the client has disconnected in the middle of a streamed reply
\* the backend response body of the session is cancelled.
DisconnectCancelsBackend == client # "connected" => status = "cancelled"

\* no byte of the backend body is read once the client is gone
NoReadAfterDisconnect == [][client # "connected" => received' = received]_vars

\* the pipeThrough chain of apps/proxy does cancel the backend body
DisconnectCancelsBackendProxy ==
    (variant = "proxy" /\ client # "connected") => status = "cancelled" /\ wire = << >>

\* ---------------------------------------------------------------------
\* Token refresh
\* ---------------------------------------------------------------------
\* the token the call found expires more than 5 minutes after the call
ExpiresLater == tokenCall.before.copilotTokenExpiresAt > tokenCall.at + 5 * 60 * 1000

ArgumentLines == {"t0argA", "t0argB", "t1open"}

IsInputJsonDelta(e) == e.type = "content_block_delta" /\ e.delta.type = "input_json_delta"

\* the event at position p of evs carries the index of the tool_use block
\* that was opened with this id, and that block has not been stopped
InOwnOpenBlock(evs, p, id) ==
    \E q \in 1..(p - 1) :
        /\ IsStart(evs[q])
        /\ evs[q].index = evs[p].index
        /\ evs[q].content_block.type = "tool_use"
        /\ evs[q].content_block.id = id
        /\ \A j \in (q + 1)..(p - 1) : ~(IsStop(evs[j]) /\ evs[j].index = evs[p].index)

\* the session is given the argument line l next: what it forwards goes to
\* the block of the line's call-index
ArgumentsToOwnBlock(l) ==
    LET tc == Chunk(l).tool_calls[1]
        r == ProcessLine(variant, session, <<Piece(l, 1), Piece(l, 2)>>)
        evs == r.st.out
    IN  \A p \in (Len(out) + 1)..Len(evs) :
            IsInputJsonDelta(evs[p]) => InOwnOpenBlock(evs, p, r.st.toolCalls[tc.index].id)

\* C29: every input_json_delta forwarded for call-index k carries the index
\* of the block opened for k and is emitted while that block is open, also
\* when the fragments of several call-indices or text arrive interleaved.
ArgumentIndexOwnBlock ==
    variant = "proxy" => \A l \in ArgumentLines : ArgumentsToOwnBlock(l)

\* the block opened last is the block of call-index k, and it is open
LastBlockIsOf(k) ==
    /\ k \in DOMAIN session.toolCalls
    /\ OpenBlocks(out) # {}
    /\ \A q \in OpenBlocks(out) :
           /\ out[q].content_block.type = "tool_use"
           /\ out[q].content_block.id = session.toolCalls[k].id
           /\ \A j \in (q + 1)..Len(out) : ~IsStart(out[j])

\* the same when the fragments of a call follow its opening with nothing
\* else in between
ArgumentIndexOwnBlockInOrder ==
    variant = "proxy" =>
        \A l \in ArgumentLines :
            (Chunk(l).tool_calls[1].index \notin DOMAIN session.toolCalls
                \/ LastBlockIsOf(Chunk(l).tool_calls[1].index))
            => ArgumentsToOwnBlock(l)

\* the lines that carry a usage snapshot and nothing else: choices: [] and
\* a choice with an empty delta
UsageOnlyLines == {"usage", "usageDelta"}

\* the session is given the usage-only line l next: it emits nothing but
\* the one-time message_start, and its output-token counter becomes the
\* completion_tokens of the snapshot
UsageOnlyCounted(l) ==
    LET r == ProcessLine(variant, session, <<Piece(l, 1), Piece(l, 2)>>)
        new == After(r.st.out, Len(out))
    IN  /\ r.ctl = "next"
        /\ IF session.sentMessageStart THEN new = << >>
           ELSE Len(new) = 1 /\ new[1].type = "message_start"
        /\ r.st.outputTokens = Chunk(l).usage.completion_tokens

\* a delta with a usage snapshot and no content, tool call or finish_reason
IsUsageOnly(d) ==
    /\ d.choices # "missing"
    /\ d.usage.present
    /\ d.content = ""
    /\ d.tool_calls = << >>
    /\ d.finish_reason = ""

\* C30: a delta with a usage snapshot and no content, tool call or
\* finish_reason, whether its choices array is empty or holds an empty
\* delta, emits nothing but the one-time message_start and sets the
\* output-token counter to the snapshot's completion_tokens.
UsageOnlyDelta ==
    (variant = "proxy" /\ Processed # << >> /\ IsUsageOnly(Last(Processed))) =>
        /\ session.outputTokens = Last(Processed).usage.completion_tokens
        /\ \A l \in UsageOnlyLines :
               LET r == ProcessLine(variant, session, <<Piece(l, 1), Piece(l, 2)>>)
               IN  After(r.st.out, Len(out)) = << >>

\* the same for the snapshot that comes with an empty delta
UsageOnlyDeltaWithChoice ==
    variant = "proxy" => UsageOnlyCounted("usageDelta")

\* a snapshot with choices: [] emits nothing but the one-time message_start
UsageOnlyEmitsNothing ==
    variant = "proxy" =>
        LET r == ProcessLine(variant, session, <<Piece("usage", 1), Piece("usage", 2)>>)
        IN  After(r.st.out, Len(out)) \in
                {<< >>, <<createMessageStartEvent(r.st)>>}

\* ---------------------------------------------------------------------
\* Block indices and tool-call registration
\* ---------------------------------------------------------------------
\* the content_block_start events of the session, in emission order
BlockStarts == SelectSeq(out, IsStart)

\* C31: the content_block_start events of a session carry the indices
\* 0, 1, 2, ... in emission order; no index is used for two blocks.
BlockIndicesSequential ==
    variant = "proxy" => \A i \in DOMAIN BlockStarts : BlockStarts[i].index = i - 1

\* a text block and two tool_use blocks were opened
BlockIndicesSequentialWitness ==
    /\ variant = "proxy"
    /\ Len(BlockStarts) = 3
    /\ BlockStarts[1].content_block.type = "text"
    /\ BlockStarts[3].content_block.type = "tool_use"
    /\ BlockStarts[3].index = 2

\* the tool_use content_block_start events that carry the id of a
\* call-index: the backend names call-index 0 "c1" and call-index 1 "c2"
ToolStartsOf(id) ==
    {i \in DOMAIN out :
        /\ IsStart(out[i])
        /\ out[i].content_block.type = "tool_use"
        /\ out[i].content_block.id = id}

\* the fragments processed so far that carry this id together with a name
OpeningFragments(id) ==
    {i \in DOMAIN Fragments(Processed) :
        Fragments(Processed)[i].id = id /\ Fragments(Processed)[i].name # ""}

\* C32: at most one tool_use content_block_start is emitted for a backend
\* call-index, also when later fragments repeat its id and name.
OneBlockPerCallIndex ==
    variant = "proxy" => \A id \in {"c1", "c2"} : Cardinality(ToolStartsOf(id)) <= 1

\* the id and the name of call-index 0 came twice, one block was opened
OneBlockPerCallIndexWitness ==
    /\ variant = "proxy"
    /\ Cardinality(OpeningFragments("c1")) >= 2
    /\ Cardinality(ToolStartsOf("c1")) = 1
    /\ Cardinality(ToolStartsOf("c2")) = 1


\* ---------------------------------------------------------------------
\* JSON lines without a usable first choice
\* ---------------------------------------------------------------------
\* the deltas received so far whose choices array is empty or missing
WithoutFirstChoice ==
    {i \in DOMAIN Deltas(received) : Deltas(received)[i].choices \in {"empty", "missing"}}

\* C33: a data line of valid JSON without a usable first choice (choices
\* empty or missing) does not abort the session: transform does not throw
\* on it and the session is given the lines after it.
NoFirstChoiceSkipped ==
    (variant = "proxy" /\ WithoutFirstChoice # {}) =>
        transform(variant, InitSession, received).ctl # "throw"

\* the same for the lines whose choices array is present and empty: the
\* line is left by "continue" and the text line after it is transcoded
EmptyChoicesSkipped ==
    (variant = "proxy" /\ wire = << >>
       /\ \A i \in DOMAIN Deltas(received) : Deltas(received)[i].choices # "missing") =>
        /\ transform(variant, InitSession, received).ctl # "throw"
        /\ LET r == ProcessLine(variant, session, <<Piece("usage", 1), Piece("usage", 2)>>)
               t == ProcessLine(variant, r.st, <<Piece("hel", 1), Piece("hel", 2)>>)
           IN  /\ r.ctl = "next"
               /\ t.ctl = "next"
               /\ Len(t.st.out) > Len(r.st.out)


\* ---------------------------------------------------------------------
\* Order of the backend messages
\* ---------------------------------------------------------------------
\* what identifies a backend message in the order: its role, for a tool
\* message the call it answers, for an assistant message the calls it makes
IdsOf(calls) == [i \in DOMAIN calls |-> calls[i].id]

Origin(m) ==
    [role |-> m.role,
     answers |-> IF m.role = "tool" THEN m.tool_call_id ELSE "",
     calls |-> IF "tool_calls" \in DOMAIN m THEN IdsOf(m.tool_calls) ELSE << >>]

Origins(messages) == [i \in DOMAIN messages |-> Origin(messages[i])]

\* the blocks of a message of the given type, in block order
BlocksOfType(msg, type) ==
    IF msg.content.kind = "blocks"
    THEN SelectSeq(msg.content.blocks, LAMBDA b : b.type = type)
    ELSE << >>

\* the run an inbound message is to map to: one tool message per
\* tool_result block in block order, else one message of the same role,
\* an assistant message with its tool_use blocks in block order
ExpectedRun(msg) ==
    LET results == BlocksOfType(msg, "tool_result")
        uses == BlocksOfType(msg, "tool_use")
    IN  IF msg.role = "user" /\ results # << >>
        THEN [i \in DOMAIN results |->
                 [role |-> "tool", answers |-> results[i].tool_use_id, calls |-> << >>]]
        ELSE <<[role |-> msg.role, answers |-> "",
                calls |-> IF msg.role = "assistant"
                          THEN [i \in DOMAIN uses |-> uses[i].id] ELSE << >>]>>

RECURSIVE ExpectedRuns(_)
ExpectedRuns(messages) ==
    IF messages = << >> THEN << >>
    ELSE ExpectedRun(Head(messages)) \o ExpectedRuns(Tail(messages))

ExpectedSystem(request) ==
    IF request.system.kind = "absent" THEN << >>
    ELSE <<[role |-> "system", answers |-> "", calls |-> << >>]>>

\* C35: the backend messages are the system message, when the request has
\* a system prompt, followed by one contiguous run per inbound message in
\* inbound order, the messages of a run in the order of their blocks.
RequestOrderPreserved ==
    call.made =>
        Origins(call.body.messages) =
            ExpectedSystem(anthropicRequest) \o ExpectedRuns(anthropicRequest.messages)

\* a system prompt, an assistant message with a tool call, and a user
\* message answering two calls in the order c2, c1
RequestOrderPreservedWitness ==
    /\ call.made
    /\ Len(call.body.messages) = 4
    /\ call.body.messages[1].role = "system"
    /\ call.body.messages[2].role = "assistant"
    /\ call.body.messages[3].role = "tool" /\ call.body.messages[3].tool_call_id = "c2"
    /\ call.body.messages[4].role = "tool" /\ call.body.messages[4].tool_call_id = "c1"


\* ---------------------------------------------------------------------
\* Streaming and non-streaming stop reason
\* ---------------------------------------------------------------------
\* the non-streaming completion that ends with the given finish_reason
CompletionEndingWith(reason) == OpenAIResponse(<<Choice(Str(<<"Hel">>), << >>, reason)>>)

\* the message_delta events of the session
MessageDeltas == SelectSeq(out, LAMBDA e : e.type = "message_delta")

\* C36: the stop_reason of the streaming message_delta equals the
\* stop_reason transformResponse gives a completion that ends with the
\* same finish_reason.
StopReasonPathsAgree ==
    (variant = "proxy" /\ FinishDeltas # << >> /\ MessageDeltas # << >>) =>
        MessageDeltas[1].stop_reason =
            transformResponse(CompletionEndingWith(FinishDeltas[1].finish_reason)).stop_reason

\* the two paths agree on the finish reasons both maps name
StopReasonPathsAgreeOnNamed ==
    (variant = "proxy" /\ FinishDeltas # << >> /\ MessageDeltas # << >>
       /\ FinishDeltas[1].finish_reason \in {"stop", "length", "tool_calls", "content_filter"}) =>
        MessageDeltas[1].stop_reason =
            transformResponse(CompletionEndingWith(FinishDeltas[1].finish_reason)).stop_reason


(***************************************************************************)
(* Concurrent sessions.  The server makes one createStreamTransformer call *)
(* per streamed reply; the replies of concurrent requests are transcoded   *)
(* by transform calls that interleave on the one event loop (PairSpec).    *)
(***************************************************************************)
\* the stream part and the routing part of a state without a single
\* session and without a request
StreamUnused ==
    /\ variant = "proxy"
    /\ alphabet = {}
    /\ session = InitSession
    /\ wire = << >>
    /\ received = << >>
    /\ status = "unused"
    /\ client = "connected"

RouteIdle ==
    /\ anthropicRequest = [model |-> <<>>, system |-> Absent, messages |-> <<>>, stream |-> FALSE]
    /\ webSearchEnabled = FALSE
    /\ turn = 0
    /\ phase = "idle"
    /\ route = "none"
    /\ call = NoCall
    /\ openaiResponse = NoAnswer
    /\ reply = NoReply

\* the concurrent sessions, by the order of their createStreamTransformer calls
PairSessions == {1, 2}

\* the replies the backend streams to a session: text, a tool call with
\* its arguments, text followed by a tool call
PairScripts ==
    {<<"hel", "lo", "stop">>,
     <<"t0open", "t0argA", "toolcalls">>,
     <<"hel", "t0open", "stop">>}

RECURSIVE ScriptBytes(_)
ScriptBytes(script) ==
    IF script = << >> THEN << >> ELSE WireLine(Head(script)) \o ScriptBytes(Tail(script))

\* createStreamTransformer keeping state and flags at module level: every
\* call uses the one closure state
createStreamTransformer_ModuleState(n) == 1

\* createStreamTransformer: the n-th call allocates a StreamState, the
\* flags and the buffer of its own, and returns a stream closed over them
createStreamTransformer(n) == n

PairInit ==
    /\ states = [l \in {createStreamTransformer(n) : n \in PairSessions} |-> InitSession]
    /\ \E scripts \in [PairSessions -> PairScripts] :
         streams = [n \in PairSessions |->
                       [script |-> scripts[n], wire |-> << >>, received |-> << >>,
                        emitted |-> << >>]]
    /\ StreamUnused
    /\ RouteIdle
    /\ TokenIdle
    /\ DaemonIdle

\* the backend of session n writes the next piece of its reply
PairBackendWrite(n) ==
    /\ Len(streams[n].wire) < MaxChunk
    /\ LET sent == streams[n].received \o streams[n].wire
           bytes == ScriptBytes(streams[n].script)
       IN  /\ Len(sent) < Len(bytes)
           /\ streams' = [streams EXCEPT ![n].wire = Append(@, bytes[Len(sent) + 1])]
    /\ UNCHANGED states
    /\ UNCHANGED <<streamVars, routeVars, tokenVars>>
    /\ UNCHANGED daemonVars

\* the transport of session n hands what has arrived to the transform of
\* the session's stream; the events go to the controller of that stream
PairTransform(n) ==
    /\ streams[n].wire # << >>
    /\ LET own == createStreamTransformer(n)
           r == transform("proxy", states[own], streams[n].wire)
       IN  /\ states' = [states EXCEPT ![own] = r.st]
           /\ streams' = [streams EXCEPT
                             ![n].emitted = @ \o After(r.st.out, Len(states[own].out)),
                             ![n].received = @ \o streams[n].wire,
                             ![n].wire = << >>]
    /\ UNCHANGED <<streamVars, routeVars, tokenVars>>
    /\ UNCHANGED daemonVars

PairNext == \E n \in PairSessions : PairBackendWrite(n) \/ PairTransform(n)

PairSpec == PairInit /\ [][PairNext]_vars

\* what a session emits when it runs alone on the bytes it has received
EmittedAlone(n) == transform("proxy", InitSession, streams[n].received).st.out

\* C34: whatever the interleaving of the transform calls of concurrent
\* sessions, each session has emitted the events it emits when it runs
\* alone on the same input.
SessionsIsolated == \A n \in PairSessions : streams[n].emitted = EmittedAlone(n)

\* the whole reply of session 2 was transcoded between two transform calls
\* of session 1, which is in the middle of a line of its tool call
SessionsIsolatedWitness ==
    /\ streams[1].script = <<"hel", "t0open", "stop">>
    /\ Len(streams[1].received) = 4
    /\ streams[1].wire # << >>
    /\ Len(streams[1].emitted) = 3
    /\ streams[2].script = <<"t0open", "t0argA", "toolcalls">>
    /\ streams[2].received = ScriptBytes(streams[2].script)
    /\ streams[2].emitted[Len(streams[2].emitted)].type = "message_stop"


(***************************************************************************)
(* The daemon commands of the CLI.  start, stop and status are processes   *)
(* of their own that share the daemon state file and the proxy server      *)
(* processes; each file access, signal and spawn is a step (DaemonSpec).   *)
(* SerialSpec runs the commands one after another, the servers listening   *)
(* and crashing at any moment.                                             *)
(***************************************************************************)
DEFAULT_PORT == 51080

\* findAvailablePort tries startPort .. startPort + PortRange - 1
PortRange == 100

\* the server processes ever spawned
MaxSpawns == 2

\* the CLI invocations that may be in progress at once
Invocations == {1, 2}

\* the daemon state file: absent, or the DaemonState written
NoDaemonFile == [kind |-> "absent"]

DaemonState(pid, port) == [kind |-> "file", pid |-> pid, port |-> port]

\* what loadDaemonState returns for an absent file
Null == [kind |-> "null"]

\* an invocation slot without a command; state, running, port and pid are
\* the locals of the command
NoCommand ==
    [cmd |-> "none", pc |-> "idle", state |-> Null, running |-> FALSE,
     port |-> 0, pid |-> 0]

\* a spawned server: pid p is servers[p]
Server(port) == [port |-> port, state |-> "starting"]

\* isProcessRunning reporting every pid alive
isProcessRunning_AlwaysTrue(pid) == TRUE

\* isProcessRunning: process.kill(pid, 0) does not throw
isProcessRunning(pid) == servers[pid].state # "dead"

\* isPortAvailable: a listener can be bound to the port
isPortAvailable(port) ==
    \A p \in DOMAIN servers : ~(servers[p].state = "listening" /\ servers[p].port = port)

\* findAvailablePort: the first available port from startPort on
findAvailablePort(startPort) ==
    LET free == {q \in startPort..(startPort + PortRange - 1) : isPortAvailable(q)}
    IN  CHOOSE q \in free : \A r \in free : q <= r

DaemonInit ==
    /\ daemonFile = NoDaemonFile
    /\ servers = << >>
    /\ commands = [i \in Invocations |-> NoCommand]
    /\ StreamUnused
    /\ RouteIdle
    /\ TokenIdle
    /\ PairIdle

Unfinished(i) == commands[i].pc \notin {"idle", "done"}

\* the start invocations that have not spawned their server yet
StartsPending ==
    {i \in Invocations :
        commands[i].cmd = "start" /\ commands[i].pc \notin {"idle", "done", "save"}}

NotDaemon == UNCHANGED <<streamVars, routeVars, tokenVars, pairVars>>

\* the user runs a command; all three begin with isDaemonRunning
Begin(i) ==
    /\ ~Unfinished(i)
    /\ \E cmd \in {"start", "stop", "status"} :
         /\ cmd = "start" => Len(servers) + Cardinality(StartsPending) < MaxSpawns
         /\ commands' = [commands EXCEPT ![i] = [NoCommand EXCEPT !.cmd = cmd, !.pc = "load"]]
    /\ UNCHANGED <<daemonFile, servers>>
    /\ NotDaemon

\* isDaemonRunning: loadDaemonState, and the return for a missing file
Load(i) ==
    /\ commands[i].pc = "load"
    /\ commands' = [commands EXCEPT
           ![i].state = IF daemonFile = NoDaemonFile THEN Null ELSE daemonFile,
           ![i].pc = IF daemonFile = NoDaemonFile THEN "decided" ELSE "probe"]
    /\ UNCHANGED <<daemonFile, servers>>
    /\ NotDaemon

\* isDaemonRunning: isProcessRunning(state.pid), and the return for a live process
Probe(i) ==
    /\ commands[i].pc = "probe"
    /\ commands' = [commands EXCEPT
           ![i].running = isProcessRunning(commands[i].state.pid),
           ![i].pc = IF isProcessRunning(commands[i].state.pid) THEN "decided" ELSE "cleanup"]
    /\ UNCHANGED <<daemonFile, servers>>
    /\ NotDaemon

\* isDaemonRunning: "Clean up stale daemon file if process is not running"
Cleanup(i) ==
    /\ commands[i].pc = "cleanup"
    /\ daemonFile' = NoDaemonFile
    /\ commands' = [commands EXCEPT ![i].state = Null, ![i].pc = "decided"]
    /\ UNCHANGED servers
    /\ NotDaemon

\* status: prints what isDaemonRunning returned
StatusDecided(i) ==
    /\ commands[i].cmd = "status"
    /\ commands[i].pc = "decided"
    /\ commands' = [commands EXCEPT ![i].pc = "done"]
    /\ UNCHANGED <<daemonFile, servers>>
    /\ NotDaemon

\* start: "Check if already running", then the credentials, which are
\* there and valid or make the command exit
StartDecided(i) ==
    /\ commands[i].cmd = "start"
    /\ commands[i].pc = "decided"
    /\ \E credentialsOk \in BOOLEAN :
         commands' = [commands EXCEPT
             ![i].pc = IF commands[i].running /\ commands[i].state # Null THEN "done"
                       ELSE IF credentialsOk THEN "findPort" ELSE "done"]
    /\ UNCHANGED <<daemonFile, servers>>
    /\ NotDaemon

\* start: "Find available port"
FindPort(i) ==
    /\ commands[i].pc = "findPort"
    /\ commands' = [commands EXCEPT ![i].port = findAvailablePort(DEFAULT_PORT),
                                    ![i].pc = "spawn"]
    /\ UNCHANGED <<daemonFile, servers>>
    /\ NotDaemon

\* start: "Spawn server as detached process"
SpawnServer(i) ==
    /\ commands[i].pc = "spawn"
    /\ servers' = Append(servers, Server(commands[i].port))
    /\ commands' = [commands EXCEPT ![i].pid = Len(servers) + 1, ![i].pc = "save"]
    /\ UNCHANGED daemonFile
    /\ NotDaemon

\* start: "Save daemon state"; the health check that follows changes nothing
SaveDaemonState(i) ==
    /\ commands[i].pc = "save"
    /\ daemonFile' = DaemonState(commands[i].pid, commands[i].port)
    /\ commands' = [commands EXCEPT ![i].pc = "done"]
    /\ UNCHANGED servers
    /\ NotDaemon

\* stop: 'Proxy is not running', or on to the signals
StopDecided(i) ==
    /\ commands[i].cmd = "stop"
    /\ commands[i].pc = "decided"
    /\ commands' = [commands EXCEPT
           ![i].pc = IF ~commands[i].running \/ commands[i].state = Null
                     THEN "done" ELSE "term"]
    /\ UNCHANGED <<daemonFile, servers>>
    /\ NotDaemon

\* stop: process.kill(state.pid, 'SIGTERM'), which throws for a process
\* that is gone; the server that gets the signal exits then or later
SendSigterm(i) ==
    /\ commands[i].pc = "term"
    /\ LET pid == commands[i].state.pid
       IN  IF isProcessRunning(pid)
           THEN /\ servers' = [servers EXCEPT ![pid].state = "terminating"]
                /\ commands' = [commands EXCEPT ![i].pc = "recheck"]
           ELSE /\ commands' = [commands EXCEPT ![i].pc = "catch"]
                /\ UNCHANGED servers
    /\ UNCHANGED daemonFile
    /\ NotDaemon

\* stop, after the wait: process.kill(state.pid, 0) and SIGKILL if it is
\* still there
Recheck(i) ==
    /\ commands[i].pc = "recheck"
    /\ LET pid == commands[i].state.pid
       IN  servers' = [servers EXCEPT ![pid].state = "dead"]
    /\ commands' = [commands EXCEPT ![i].pc = "delete"]
    /\ UNCHANGED daemonFile
    /\ NotDaemon

\* stop: deleteDaemonState, at the end of the try block and in the catch
DeleteDaemonState(i) ==
    /\ commands[i].pc \in {"delete", "catch"}
    /\ daemonFile' = NoDaemonFile
    /\ commands' = [commands EXCEPT ![i].pc = "done"]
    /\ UNCHANGED servers
    /\ NotDaemon

\* a spawned server binds its port, or exits when the port is taken
ServerListens(p) ==
    /\ servers[p].state = "starting"
    /\ servers' = [servers EXCEPT
           ![p].state = IF isPortAvailable(servers[p].port) THEN "listening" ELSE "dead"]
    /\ UNCHANGED <<daemonFile, commands>>
    /\ NotDaemon

\* a server process crashes, or exits after SIGTERM
ServerExits(p) ==
    /\ servers[p].state # "dead"
    /\ servers' = [servers EXCEPT ![p].state = "dead"]
    /\ UNCHANGED <<daemonFile, commands>>
    /\ NotDaemon

CommandStep(i) ==
    \/ Begin(i)
    \/ Load(i)
    \/ Probe(i)
    \/ Cleanup(i)
    \/ StatusDecided(i)
    \/ StartDecided(i)
    \/ FindPort(i)
    \/ SpawnServer(i)
    \/ SaveDaemonState(i)
    \/ StopDecided(i)
    \/ SendSigterm(i)
    \/ Recheck(i)
    \/ DeleteDaemonState(i)

ServerStep == \E p \in DOMAIN servers : ServerListens(p) \/ ServerExits(p)

DaemonNext == (\E i \in Invocations : CommandStep(i)) \/ ServerStep

DaemonSpec == DaemonInit /\ [][DaemonNext]_vars

\* one command at a time
Exclusive(i) == \A j \in Invocations \ {i} : ~Unfinished(j)

SerialNext == (\E i \in Invocations : Exclusive(i) /\ CommandStep(i)) \/ ServerStep

SerialSpec == DaemonInit /\ [][SerialNext]_vars

\* the server processes that are alive and not on their way out
Running == {p \in DOMAIN servers : servers[p].state \in {"starting", "listening"}}

\* C37: whatever the interleaving of concurrent start invocations, at most
\* one server process is spawned, and once the invocations are through the
\* daemon state file records the pid and the port of the running server.
\* While every spawned server is still running, no stop and no crash has
\* had an effect.
SingleServerSpawned ==
    Running = DOMAIN servers =>
        /\ Len(servers) <= 1
        /\ (Len(servers) = 1 /\ \A i \in Invocations : ~Unfinished(i)) =>
               daemonFile = DaemonState(1, servers[1].port)


\* the process is there, whatever isProcessRunning says
Alive(pid) == servers[pid].state # "dead"

\* invocation i gets the result of its isDaemonRunning call in this step
Reported(i) == commands[i].pc # "decided" /\ commands'[i].pc = "decided"

\* C38: when the commands run one after another and servers crash at any
\* moment, isDaemonRunning reports running = true only if the daemon state
\* file exists and the pid in it is alive; if the file records a dead
\* process it reports running = false and the file is deleted; and when
\* stop returns after it found the daemon running, the file is gone.
DaemonReportSound ==
    [][\A i \in Invocations :
          /\ (Reported(i) /\ commands'[i].running) =>
                 daemonFile' # NoDaemonFile /\ Alive(daemonFile'.pid)
          /\ (Reported(i) /\ daemonFile # NoDaemonFile /\ ~Alive(daemonFile.pid)) =>
                 ~commands'[i].running /\ daemonFile' = NoDaemonFile
          /\ (commands[i].cmd = "stop" /\ commands[i].running
                /\ Unfinished(i) /\ ~Unfinished(i)') =>
                 daemonFile' = NoDaemonFile]_vars

\* a first server crashed and its file was cleaned up, a second one was
\* started and stopped: stop has returned and the file is gone
DaemonReportSoundWitness ==
    /\ Len(servers) = 2
    /\ \A p \in DOMAIN servers : ~Alive(p)
    /\ \E i \in Invocations :
         /\ commands[i].cmd = "stop"
         /\ commands[i].pc = "done"
         /\ commands[i].running
         /\ commands[i].state = DaemonState(2, DEFAULT_PORT)
    /\ daemonFile = NoDaemonFile

====
